---- MODULE Spec2Model ----
(***************************************************************************)
(* A model of canvas_classes.py: the ShapeCanvas widget (a tkinter Canvas  *)
(* subclass) together with the part of the Tk canvas it drives: the item   *)
(* table with its ids, coordinates, outline/fill options and tags, and the *)
(* queue of `after` callbacks; and the DrawCanvas widgets that are         *)
(* children of one frame, each with its own Tk item table.                 *)
(*                                                                         *)
(* Every event handler is a function from the state before the event to    *)
(* the state after it.  A Python exception raised inside a handler stops   *)
(* the handler where it is raised (tkinter reports it and returns to the   *)
(* event loop), so the writes made before the raise are kept and the ones  *)
(* after it are not.  The field err carries the exception of the handler   *)
(* that ran last, the field op its name (for handle_key, the name of the   *)
(* case that ran).                                                         *)
(*                                                                         *)
(* report_cursor_posn calls update(), which runs the Tk event loop inside  *)
(* the handler: the handlers of the events and callbacks that are due run  *)
(* there, each to its end, before the handler goes on.  A handler that     *)
(* calls it takes the sequence of those handlers as an argument.           *)
(***************************************************************************)
EXTENDS Integers, Sequences, FiniteSets, TLC

VARIABLES firstx, firsty, startx, starty, previousx, previousy, points,
          motionx, motiony, linecolor, shapetags, next_shape, selected,
          multi_selected, objlist, oval_width, oval_height, rect_width,
          rect_height, arc_width, arc_height, nextid, items, pending, err,
          op, nmoves, draw

vars == <<firstx, firsty, startx, starty, previousx, previousy, points,
          motionx, motiony, linecolor, shapetags, next_shape, selected,
          multi_selected, objlist, oval_width, oval_height, rect_width,
          rect_height, arc_width, arc_height, nextid, items, pending, err,
          op, nmoves, draw>>

(***************************************************************************)
(* Bounds of the model.                                                    *)
(***************************************************************************)
\* canvas ids handed out (every create_* call of Tk takes the next id)
MaxId == 6
\* nudge events handled (location and size)
MaxMoves == 2
\* `after` callbacks waiting at one time
MaxPending == 1
\* length of a nudge round trip examined from every reachable state
MaxNudge == 2
\* DrawCanvas children of the frame
MaxCanvases == 2
\* lines drawn on the DrawCanvas children together (their line_count)
MaxLines == 2
\* points recorded on the DrawCanvas children together at one time
MaxPoints == 4
\* clicks of a polyline examined from every reachable state
MaxClicks == 3
\* handlers that run inside one update(), and update() calls inside them
MaxQueued == 1

(***************************************************************************)
(* Values.                                                                 *)
(***************************************************************************)
\* Python None, for an id: Tk numbers canvas items from 1.
None == 0

\* pointer positions events are delivered at
PointerPoints == {<<10, 10>>, <<15, 8>>}

\* the kinds create_shape knows
ShapeKinds == {"oval", "rectangle", "arc"}

\* the values the host gives to next_shape; "line" is a kind create_shape
\* does not know
NextShapes == {"oval", "rectangle", "arc", "line"}

\* the values the host gives to linecolor
LineColors == {"black", "red"}

\* size of the ShapeCanvas in the module's __main__ block
CanvasWidth == 400
CanvasHeight == 500

\* MyCanvas.__init__ passes no highlightthickness or borderwidth to the Tk
\* canvas: Tk draws its default focus highlight, one pixel wide, around the
\* configured area
HighlightThickness == 1

\* a tag: name and number, 'oval1' is <<"oval", 1>>, 'oval' is <<"oval", 0>>
Tag(name, n) == <<name, n>>

Last(seq) == seq[Len(seq)]

Put(f, k, v) == [i \in (DOMAIN f) \cup {k} |-> IF i = k THEN v ELSE f[i]]

Range(seq) == {seq[i] : i \in DOMAIN seq}

(***************************************************************************)
(* The state as one record, and a handler's result written back.  The      *)
(* field draw holds the DrawCanvas widgets of the application: the event   *)
(* loop that update() runs is the one of all widgets.                      *)
(***************************************************************************)
St == [firstx |-> firstx, firsty |-> firsty, startx |-> startx,
       starty |-> starty, previousx |-> previousx, previousy |-> previousy,
       points |-> points, motionx |-> motionx, motiony |-> motiony,
       linecolor |-> linecolor, shapetags |-> shapetags,
       next_shape |-> next_shape, selected |-> selected,
       multi_selected |-> multi_selected, objlist |-> objlist,
       oval_width |-> oval_width, oval_height |-> oval_height,
       rect_width |-> rect_width, rect_height |-> rect_height,
       arc_width |-> arc_width, arc_height |-> arc_height,
       nextid |-> nextid, items |-> items, pending |-> pending,
       err |-> err, op |-> op, nmoves |-> nmoves, draw |-> draw]

Write(s) ==
    /\ op' = s.op
    /\ err' = s.err
    /\ firstx' = s.firstx /\ firsty' = s.firsty
    /\ startx' = s.startx /\ starty' = s.starty
    /\ previousx' = s.previousx /\ previousy' = s.previousy
    /\ points' = s.points
    /\ motionx' = s.motionx /\ motiony' = s.motiony
    /\ linecolor' = s.linecolor
    /\ shapetags' = s.shapetags
    /\ next_shape' = s.next_shape
    /\ selected' = s.selected
    /\ multi_selected' = s.multi_selected
    /\ objlist' = s.objlist
    /\ oval_width' = s.oval_width /\ oval_height' = s.oval_height
    /\ rect_width' = s.rect_width /\ rect_height' = s.rect_height
    /\ arc_width' = s.arc_width /\ arc_height' = s.arc_height
    /\ nextid' = s.nextid
    /\ items' = s.items
    /\ pending' = s.pending
    /\ nmoves' = s.nmoves

\* a handler ran and left s: the ShapeCanvas, and the DrawCanvas widgets as
\* the handlers that ran inside its update() left them
Commit(s) == Write(s) /\ draw' = s.draw

\* a handler is entered: no exception yet
Enter(s, name) == [s EXCEPT !.err = "none", !.op = name]

\* an exception is raised
Raise(s, e) == [s EXCEPT !.err = e]

\* the rest of a handler runs only if nothing was raised before it
Then(s, F(_)) == IF s.err # "none" THEN s ELSE F(s)

(***************************************************************************)
(* The Tk canvas: item table and the commands the handlers use.            *)
(***************************************************************************)
HasTag(it, tag) == \E i \in DOMAIN it.tags : it.tags[i] = tag

\* ids of the items a tag selects
WithTag(s, tag) == {i \in DOMAIN s.items : HasTag(s.items[i], tag)}

\* Tk keeps coordinates as floating-point numbers.  A coordinate is held as
\* whole pixels in coords and the rest, in units of 1/ScaleUnit pixel, in
\* frac (0 <= frac < ScaleUnit); only scale makes frac other than 0.  A
\* scaling by 1.01 or 0.99 of whole pixels about a whole pixel adds two
\* decimal places, so this unit holds three scalings of an item exactly,
\* and Bounded allows no more than three.
ScaleUnit == 1000000

\* create_oval / create_rectangle / create_arc / create_text
CanvasCreate(s, type, coords, outline, fill, tags) ==
    [s EXCEPT !.items = Put(s.items, s.nextid,
                            [type |-> type, coords |-> coords,
                             frac |-> [k \in DOMAIN coords |-> 0],
                             outline |-> outline, fill |-> fill,
                             tags |-> tags]),
              !.nextid = s.nextid + 1]

\* delete(ids): a missing id, or no id at all (None), deletes nothing
CanvasDelete(s, ids) ==
    [s EXCEPT !.items = [i \in (DOMAIN s.items) \ ids |-> s.items[i]]]

\* move(id, dx, dy)
MoveCoords(coords, dx, dy) ==
    [k \in DOMAIN coords |-> IF k % 2 = 1 THEN coords[k] + dx
                                          ELSE coords[k] + dy]

CanvasMove(s, ids, dx, dy) ==
    [s EXCEPT !.items = [i \in DOMAIN s.items |->
        IF i \in ids
        THEN [s.items[i] EXCEPT !.coords = MoveCoords(@, dx, dy)]
        ELSE s.items[i]]]

\* itemconfigure(tagOrId, fill=...)
CanvasFill(s, ids, fill) ==
    [s EXCEPT !.items = [i \in DOMAIN s.items |->
        IF i \in ids THEN [s.items[i] EXCEPT !.fill = fill] ELSE s.items[i]]]

\* itemconfigure(tagOrId, outline=...): a text item has no -outline option
CanvasOutline(s, ids, outline) ==
    IF \E i \in ids \cap DOMAIN s.items : s.items[i].type = "text"
    THEN Raise(s, "TclError")
    ELSE [s EXCEPT !.items = [i \in DOMAIN s.items |->
            IF i \in ids THEN [s.items[i] EXCEPT !.outline = outline]
            ELSE s.items[i]]]

\* find_closest(x, y, halo=25): empty on an empty canvas, else one item.
\* Which item depends on the rendered geometry (outline distance, font
\* metrics of the text items); the lookup result is an input of the event.
FindClosest(s) ==
    IF DOMAIN s.items = {} THEN {None} ELSE DOMAIN s.items

(***************************************************************************)
(* MyCanvas                                                                *)
(***************************************************************************)
\* clear_cursor_posn, and the first statement of report_cursor_posn:
\* delete('text1')
clear_cursor_posn(s) == CanvasDelete(s, WithTag(s, Tag("text", 1)))

\* the statements of report_cursor_posn after update(): the cursor text is
\* drawn at the lower right of the window
cursor_text(s) ==
    LET winfo_width == CanvasWidth + 2 * HighlightThickness
        winfo_height == CanvasHeight + 2 * HighlightThickness
    IN CanvasCreate(s, "text", <<winfo_width - 28, winfo_height - 10>>,
                    "", "blue", <<Tag("text", 1)>>)

\* update() runs the Tk event loop inside the handler that calls it: the
\* callbacks and event handlers that are due run there, each to its end, one
\* after the other.  RunQueued(s, queued) is the ShapeCanvas after the
\* handlers of the sequence queued ran from s.
RECURSIVE RunQueued(_, _)

\* report_cursor_posn on the ShapeCanvas: the cursor text is deleted, the
\* event loop runs (RunQueued: the handlers of the events and callbacks of
\* every widget that are due), the cursor text is drawn again
report_cursor_posn(s, queued) ==
    cursor_text(RunQueued(clear_cursor_posn(s), queued))

\* report_cursor_posn on the DrawCanvas child k
DrawCanvas_report_cursor_posn(s, k, queued) ==
    LET s1 == [s EXCEPT !.draw[k] = clear_cursor_posn(@)]
        s2 == RunQueued(s1, queued)
    IN [s2 EXCEPT !.draw[k] = cursor_text(@)]

set_start(s, x, y) ==
    LET s1 == IF s.firstx = 0 /\ s.firsty = 0
              THEN [s EXCEPT !.firstx = x, !.firsty = y,
                             !.previousx = x, !.previousy = y]
              ELSE [s EXCEPT !.previousx = s.startx,
                             !.previousy = s.starty]
    IN [s1 EXCEPT !.startx = x, !.starty = y,
                  !.points = Append(s.points, <<x, y>>)]

(***************************************************************************)
(* ShapeCanvas                                                             *)
(***************************************************************************)
\* the record is built without the center argument: the default is used
Shape_DefaultCenter(id, center, lc) ==
    [id |-> id, center |-> <<0, 0>>, linecolor |-> lc]

Shape(id, center, lc) == [id |-> id, center |-> center, linecolor |-> lc]

\* next((obj for obj in objlist if obj.id == id), None): index, 0 for None
Find(ol, id) ==
    IF \E i \in DOMAIN ol : ol[i].id = id
    THEN CHOOSE i \in DOMAIN ol :
            ol[i].id = id /\ \A j \in DOMAIN ol : ol[j].id = id => i <= j
    ELSE 0

\* list.remove of the entry at index k
RemoveAt(ol, k) == [i \in 1..(Len(ol) - 1) |-> IF i < k THEN ol[i] ELSE ol[i + 1]]

report_center(s, color) ==
    CanvasCreate(CanvasDelete(s, WithTag(s, Tag("center_text", 0))),
                 "text", <<10, 12>>, "", color, <<Tag("center_text", 0)>>)

calc_location(s, shape) ==
    LET xwidth == CASE shape = "oval" -> s.oval_width
                    [] shape = "rectangle" -> s.rect_width
                    [] shape = "arc" -> s.arc_width
        ywidth == CASE shape = "oval" -> s.oval_height
                    [] shape = "rectangle" -> s.rect_height
                    [] shape = "arc" -> s.arc_height
    IN <<s.startx - xwidth, s.starty - ywidth,
         s.startx + xwidth, s.starty + ywidth>>

\* create_shape: the state after it; the id it returns is CreatedId
create_shape(s, shape, lc, tag) ==
    IF shape \in ShapeKinds
    THEN CanvasCreate(s, shape, calc_location(s, shape), lc, "",
                      <<Tag(shape, 0), tag>>)
    ELSE s

CreatedId(s, shape) == IF shape \in ShapeKinds THEN s.nextid ELSE None

\* the bookkeeping without the release of the multi-selection
register_shape_KeepMulti(s, id1, this_tag) ==
    LET s1 == report_center([s EXCEPT !.shapetags = Append(@, this_tag)],
                            s.linecolor)
    IN [s1 EXCEPT !.selected = id1,
                  !.motionx = s1.startx, !.motiony = s1.starty,
                  !.objlist = Append(@, [id |-> id1,
                                         center |-> <<s1.startx, s1.starty>>,
                                         linecolor |-> s1.linecolor])]

\* the bookkeeping of setup_shape for a created shape id1
register_shape(s, id1, this_tag) ==
    LET s1 == report_center([s EXCEPT !.shapetags = Append(@, this_tag)],
                            s.linecolor)
    IN [s1 EXCEPT !.selected = id1,
                  !.multi_selected = <<>>,
                  !.motionx = s1.startx, !.motiony = s1.starty,
                  !.objlist = Append(@, Shape(id1, <<s1.startx, s1.starty>>,
                                              s1.linecolor))]

setup_shape(s0, x, y) ==
    LET s1 == set_start(Enter(s0, "setup_shape"), x, y)
        this_tag == Tag(s1.next_shape, Len(s1.shapetags) + 1)
        id1 == CreatedId(s1, s1.next_shape)
        s2 == create_shape(s1, s1.next_shape, s1.linecolor, this_tag)
    IN IF id1 = None THEN s2 ELSE register_shape(s2, id1, this_tag)

\* get_and_report_center
get_and_report_center(s) ==
    LET k == Find(s.objlist, s.selected)
    IN IF k = 0 THEN Raise(s, "StopIteration")
       ELSE report_center(s, s.objlist[k].linecolor)

\* self.after(500, lambda: ...): callbacks of equal delay run in the order
\* they were scheduled.  late: the lambda reads self.selected when it runs.
After(s, late, id) ==
    [s EXCEPT !.pending = Append(@, [late |-> late, id |-> id])]

\* items carrying one of the tags of shapetags
TaggedShapes(s) ==
    {i \in DOMAIN s.items :
        \E k \in DOMAIN s.shapetags : HasTag(s.items[i], s.shapetags[k])}

\* the shape found is highlighted but selected is not assigned
select_shape_KeepSelected(s0, found) ==
    LET s1 == CanvasFill(s0, TaggedShapes(s0), "")
    IN IF found = None THEN s1
       ELSE LET s3 == CanvasFill(s1, {found}, "#ffa")
                s4 == After(s3, TRUE, None)
            IN get_and_report_center(s4)

select_shape(s0, found) ==
    LET s1 == CanvasFill(s0, TaggedShapes(s0), "")
    IN IF found = None THEN s1
       ELSE LET s2 == [s1 EXCEPT !.selected = found]
                s3 == CanvasFill(s2, {found}, "#ffa")
                s4 == After(s3, TRUE, None)
            IN get_and_report_center(s4)

\* find_withtag(tag)[0]: the lowest item in the display list, None if none
FirstWithTag(s, tag) ==
    IF WithTag(s, tag) = {} THEN None
    ELSE CHOOSE i \in WithTag(s, tag) : \A j \in WithTag(s, tag) : i <= j

unselect_shape(s0) ==
    LET s1 == CanvasFill(s0, TaggedShapes(s0), "")
    IN IF s1.shapetags = <<>> THEN Raise(s1, "IndexError")
       ELSE LET lastid == FirstWithTag(s1, Last(s1.shapetags))
            IN IF lastid = None THEN Raise(s1, "IndexError")
               ELSE LET s2 == CanvasFill(s1, {lastid}, "#ffa")
                        s3 == After(s2, FALSE, lastid)
                    IN get_and_report_center([s3 EXCEPT !.selected = lastid])

toggle_selection(s, state, found) ==
    IF state = 1 THEN unselect_shape(Enter(s, "unselect_shape"))
    ELSE select_shape(Enter(s, "select_shape"), found)

\* list.remove(x): the first occurrence
RemoveFirst(seq, x) ==
    LET k == CHOOSE i \in DOMAIN seq :
                seq[i] = x /\ \A j \in DOMAIN seq : seq[j] = x => i <= j
    IN [i \in 1..(Len(seq) - 1) |-> IF i < k THEN seq[i] ELSE seq[i + 1]]

\* the linecolor the loop over objlist leaves in lc ('' if no entry matches)
RegistryColor(ol, id) ==
    IF \E i \in DOMAIN ol : ol[i].id = id
    THEN LET k == CHOOSE i \in DOMAIN ol :
                    ol[i].id = id /\ \A j \in DOMAIN ol : ol[j].id = id => j <= i
         IN ol[k].linecolor
    ELSE ""

\* selected is left on the shape added (self.selected = multi_selected[-1])
toggle_membership_SelectLast(s, the_id, orig_sel) ==
    IF the_id \in Range(s.multi_selected)
    THEN LET s1 == [s EXCEPT !.multi_selected = RemoveFirst(@, the_id)]
             lc == RegistryColor(s1.objlist, the_id)
             s2 == IF lc # "" THEN CanvasOutline(s1, {the_id}, lc) ELSE s1
         IN Then(s2, LAMBDA a : [a EXCEPT !.selected = orig_sel])
    ELSE [s EXCEPT !.multi_selected = Append(@, the_id),
                   !.selected = the_id]

\* the membership of the_id in multi_selected is flipped and selected is
\* set back to what it was before select_shape changed it
toggle_membership(s, the_id, orig_sel) ==
    IF the_id \in Range(s.multi_selected)
    THEN LET s1 == [s EXCEPT !.multi_selected = RemoveFirst(@, the_id)]
             lc == RegistryColor(s1.objlist, the_id)
             s2 == IF lc # "" THEN CanvasOutline(s1, {the_id}, lc) ELSE s1
         IN Then(s2, LAMBDA a : [a EXCEPT !.selected = orig_sel])
    ELSE [s EXCEPT !.multi_selected = Append(@, the_id),
                   !.selected = orig_sel]

toggle_multi_select(s0, found) ==
    LET se == Enter(s0, "toggle_multi_select")
    IN IF se.selected = None THEN se
       ELSE
        LET orig_sel == se.selected
            s1 == select_shape(se, found)
        IN Then(s1, LAMBDA a :
            Then(CanvasOutline(a, {a.selected}, "grey"), LAMBDA b :
                toggle_membership(b, a.selected, orig_sel)))

RECURSIVE ReleaseLoop(_, _)
ReleaseLoop(s, n) ==
    IF n > Len(s.multi_selected) THEN s
    ELSE LET the_id == s.multi_selected[n]
             lc == RegistryColor(s.objlist, the_id)
             s1 == IF Find(s.objlist, the_id) # 0
                   THEN CanvasOutline(s, {the_id}, lc) ELSE s
         IN Then(s1, LAMBDA a : ReleaseLoop(a, n + 1))

\* selected is left as it was
release_multi_selection_KeepSelected(s0) ==
    Then(ReleaseLoop(s0, 1), LAMBDA a :
        LET s1 == [a EXCEPT !.multi_selected = <<>>]
        IN IF s1.objlist = <<>> THEN Raise(s1, "IndexError") ELSE s1)

release_multi_selection(s0) ==
    Then(ReleaseLoop(s0, 1), LAMBDA a :
        LET s1 == [a EXCEPT !.multi_selected = <<>>]
        IN IF s1.objlist = <<>> THEN Raise(s1, "IndexError")
           ELSE [s1 EXCEPT !.selected = Last(s1.objlist).id])

show_selected(s) ==
    After(CanvasFill(s, {s.selected}, "#ffa"), TRUE, None)

set_to_black(s, found, color) ==
    IF s.objlist = <<>> THEN s
    ELSE Then(CanvasOutline(s, {found}, color), LAMBDA a :
            IF found = None THEN Raise(a, "IndexError")
            ELSE LET k == Find(a.objlist, found)
                 IN IF k = 0 THEN Raise(a, "StopIteration")
                    ELSE [a EXCEPT !.objlist[k].linecolor = color])

\* Down moves as Up does
NudgeStep_DownAsUp(keysym) ==
    CASE keysym = "Up" -> <<0, -1>>
      [] keysym = "Down" -> <<0, -1>>
      [] keysym = "Left" -> <<-1, 0>>
      [] keysym = "Right" -> <<1, 0>>

\* the step of nudge_location for an arrow key
NudgeStep(keysym) ==
    CASE keysym = "Up" -> <<0, -1>>
      [] keysym = "Down" -> <<0, 1>>
      [] keysym = "Left" -> <<-1, 0>>
      [] keysym = "Right" -> <<1, 0>>

\* for n, item in enumerate(multi_selected): the item is moved, and the
\* center of objlist[n] (the entry at the loop index) is advanced
RECURSIVE NudgeLoop(_, _, _, _)
NudgeLoop(s, n, dx, dy) ==
    IF n > Len(s.multi_selected) THEN s
    ELSE LET s1 == CanvasMove(s, {s.multi_selected[n]}, dx, dy)
         IN IF n > Len(s1.objlist) THEN Raise(s1, "IndexError")
            ELSE NudgeLoop([s1 EXCEPT !.objlist[n].center =
                                        <<@[1] + dx, @[2] + dy>>],
                           n + 1, dx, dy)

nudge_location(s0, keysym) ==
    IF s0.selected = None THEN s0
    ELSE IF keysym \notin {"Up", "Down", "Left", "Right"} THEN s0
    ELSE
      LET dx == NudgeStep(keysym)[1]
          dy == NudgeStep(keysym)[2]
          s1 == IF Len(s0.multi_selected) > 0 THEN NudgeLoop(s0, 1, dx, dy)
                ELSE CanvasMove(s0, {s0.selected}, dx, dy)
      IN Then(s1, LAMBDA a :
            LET k == Find(a.objlist, a.selected)
            IN IF k = 0 THEN Raise(a, "StopIteration")
               ELSE LET s2 == [a EXCEPT !.objlist[k].center =
                                            <<@[1] + dx, @[2] + dy>>]
                    IN report_center(s2, s2.objlist[k].linecolor))

\* nudge_location_orig(event, dx, dy): bound to no event and called by no
\* code of the module; it has no test of selected, and move(None, dx, dy)
\* reaches Tk without an item
nudge_location_orig(s0, dx, dy) ==
    LET se == Enter(s0, "nudge_location_orig")
        s1 == IF Len(se.multi_selected) > 0 THEN NudgeLoop(se, 1, dx, dy)
              ELSE IF se.selected = None THEN Raise(se, "TclError")
              ELSE CanvasMove(se, {se.selected}, dx, dy)
    IN Then(s1, LAMBDA a :
          LET k == Find(a.objlist, a.selected)
          IN IF k = 0 THEN Raise(a, "StopIteration")
             ELSE LET s2 == [a EXCEPT !.objlist[k].center =
                                          <<@[1] + dx, @[2] + dy>>]
                  IN report_center(s2, s2.objlist[k].linecolor))

\* coords(item, new_coords) of an oval, rectangle or arc
CanvasSetCoords(s, id, coords) ==
    [s EXCEPT !.items = [i \in DOMAIN s.items |->
        IF i = id THEN [s.items[i] EXCEPT !.coords = coords] ELSE s.items[i]]]

\* coords(item): empty for a missing item
CanvasCoords(s, id) == IF id \in DOMAIN s.items THEN s.items[id].coords ELSE <<>>

\* the parts of coords(item) below one pixel
CanvasFrac(s, id) == IF id \in DOMAIN s.items THEN s.items[id].frac ELSE <<>>

\* coords(item, new_coords) with the parts below one pixel given too
CanvasSetFrac(s, id, frac) ==
    [s EXCEPT !.items = [i \in DOMAIN s.items |->
        IF i = id THEN [s.items[i] EXCEPT !.frac = frac] ELSE s.items[i]]]

\* one hundredth of v, toward zero
Hundredth(v) == IF v >= 0 THEN v \div 100 ELSE -((-v) \div 100)

\* a coordinate at pixel n plus f/ScaleUnit, scaled about c by 1.01 (up) or
\* by 0.99: the result in units of 1/ScaleUnit pixel
ScaleCoord(n, f, c, up) ==
    LET v == (n - c) * ScaleUnit + f
    IN c * ScaleUnit + (IF up THEN v + Hundredth(v) ELSE v - Hundredth(v))

\* scale(id, cx, cy, 1.01, 1.01) or scale(id, cx, cy, 0.99, 0.99); a missing
\* id scales nothing
CanvasScale(s, id, cx, cy, up) ==
    [s EXCEPT !.items = [i \in DOMAIN s.items |->
        IF i = id
        THEN LET it == s.items[i]
                 T == [k \in DOMAIN it.coords |->
                        ScaleCoord(it.coords[k], it.frac[k],
                                   IF k % 2 = 1 THEN cx ELSE cy, up)]
             IN [it EXCEPT !.coords = [k \in DOMAIN T |-> T[k] \div ScaleUnit],
                           !.frac = [k \in DOMAIN T |-> T[k] % ScaleUnit]]
        ELSE s.items[i]]]

\* for n, item in enumerate(group): the members in the order of objlist
RECURSIVE ResizeLoop(_, _, _)
ResizeLoop(s, n, up) ==
    IF n > Len(s.objlist) THEN s
    ELSE ResizeLoop(
            IF s.objlist[n].id \in Range(s.multi_selected)
            THEN CanvasScale(s, s.objlist[n].id, s.objlist[n].center[1],
                             s.objlist[n].center[2], up)
            ELSE s,
            n + 1, up)

resize_shape(s0, ex, ey) ==
    LET se == Enter(s0, "resize_shape")
    IN IF se.selected = None THEN se
       ELSE LET k == Find(se.objlist, se.selected)
            IN IF k = 0 THEN Raise(se, "StopIteration")
               ELSE
                LET center_posn == se.objlist[k].center
                    s1 == IF ey = se.motiony THEN se
                          ELSE IF Len(se.multi_selected) > 0
                          THEN ResizeLoop(se, 1, ey < se.motiony)
                          ELSE CanvasScale(se, se.selected, center_posn[1],
                                           center_posn[2], ey < se.motiony)
                IN [s1 EXCEPT !.motionx = ex, !.motiony = ey]

RECURSIVE NudgeSizeLoop(_, _, _, _)
NudgeSizeLoop(s, targets, n, d) ==
    IF n > Len(targets) THEN s
    ELSE LET start_coords == CanvasCoords(s, targets[n])
         IN IF Len(start_coords) < 4 THEN Raise(s, "IndexError")
            ELSE NudgeSizeLoop(
                    CanvasSetCoords(s, targets[n],
                        <<start_coords[1] - d, start_coords[2] - d,
                          start_coords[3] + d, start_coords[4] + d>>),
                    targets, n + 1, d)

nudge_size(s0, keysym) ==
    LET se == Enter(s0, "nudge_size")
    IN IF se.selected = None THEN se
       ELSE NudgeSizeLoop(se,
                IF Len(se.multi_selected) > 0 THEN se.multi_selected
                ELSE <<se.selected>>,
                1, IF keysym = "Up" THEN 1 ELSE -1)

\* nudge_size_orig(event): bound to no event and called by no code of the
\* repository, but a public method.  It has no test of selected and none of
\* the keysym: coords(None) is a TclError; for Up and Down the box read by
\* coords(item) is changed as nudge_size changes it; for any other key
\* new_coords stays () and coords(item, ()) is a TclError when the item
\* exists and does nothing when it does not.
nudge_size_orig(s0, keysym) ==
    LET se == Enter(s0, "nudge_size_orig")
        resized(s, item) ==
            IF item = None THEN Raise(s, "TclError")
            ELSE IF keysym \in {"Up", "Down"}
            THEN NudgeSizeLoop(s, <<item>>, 1, IF keysym = "Up" THEN 1 ELSE -1)
            ELSE IF item \in DOMAIN s.items THEN Raise(s, "TclError")
            ELSE s
        RECURSIVE loop(_, _)
        loop(s, n) ==
            IF n > Len(se.multi_selected) \/ s.err # "none" THEN s
            ELSE loop(resized(s, se.multi_selected[n]), n + 1)
    IN IF Len(se.multi_selected) > 0 THEN loop(se, 1)
       ELSE resized(se, se.selected)

\* the raw pointer delta is used as the step
AxisStep_RawDelta(now, before) == now - before

\* the step of drag_shape on one axis
AxisStep(now, before) ==
    IF now > before THEN 1 ELSE IF now < before THEN -1 ELSE 0

Abs(n) == IF n < 0 THEN -n ELSE n

\* the smaller offset is suppressed without the one-pixel band
DragStep_NoBand(ex, ey, px, py, constrain) ==
    IF constrain
    THEN LET x_difference == Abs(ex - px)
             y_difference == Abs(ey - py)
         IN <<IF x_difference > y_difference THEN AxisStep(ex, px) ELSE 0,
              IF y_difference > x_difference THEN AxisStep(ey, py) ELSE 0>>
    ELSE <<AxisStep(ex, px), AxisStep(ey, py)>>

DragStep(ex, ey, px, py, constrain) ==
    IF constrain
    THEN LET x_difference == Abs(ex - px)
             y_difference == Abs(ey - py)
         IN <<IF x_difference > y_difference + 1 THEN AxisStep(ex, px) ELSE 0,
              IF y_difference > x_difference + 1 THEN AxisStep(ey, py) ELSE 0>>
    ELSE <<AxisStep(ex, px), AxisStep(ey, py)>>

\* queued: the handlers that run inside the update() of report_cursor_posn;
\* the exception of one of them is reported by tkinter there and does not
\* reach drag_shape, which goes on after them
drag_shape(s0, ex, ey, constrain, queued) ==
    LET se == Enter(s0, "drag_shape")
        move(s1) ==
            IF Find(s1.objlist, s1.selected) = 0
            THEN Raise(s1, "StopIteration")
            ELSE
             LET step == DragStep(ex, ey, s1.previousx, s1.previousy, constrain)
                 dx == step[1]
                 dy == step[2]
                 s2 == [s1 EXCEPT !.previousx = ex, !.previousy = ey]
                 s3 == IF Len(s2.multi_selected) > 0
                       THEN CanvasMove(s2, Range(s2.multi_selected), dx, dy)
                       ELSE CanvasMove(s2, {s2.selected}, dx, dy)
                 k == Find(s3.objlist, s3.selected)
                 s4 == [s3 EXCEPT !.objlist[k].center = <<@[1] + dx, @[2] + dy>>]
             IN report_center(s4, s4.objlist[k].linecolor)
    IN IF se.selected = None THEN se
       ELSE move(Enter(report_cursor_posn(se, queued), "drag_shape"))

\* a box <<coords, frac>> with a coordinate off the whole pixel: Tk holds it
\* as a floating-point number that went through the rounding of scale
Inexact(box) == \E k \in DOMAIN box[2] : box[2][k] # 0

\* the offset box is never taken to match the box of the last shape
Collides_Never(lastcoords, coords_new, same) == FALSE

\* if lastcoords == coords_new: the comparison of two lists of Python floats.
\* Whole-pixel coordinates are exact.  Scaled coordinates that agree to the
\* precision kept here may differ in their last bits, since each went through
\* its own roundings: same is the outcome of the comparison then.
Collides(lastcoords, coords_new, same) ==
    IF Inexact(lastcoords) \/ Inexact(coords_new)
    THEN lastcoords = coords_new /\ same
    ELSE lastcoords = coords_new

\* Control+'d'
duplicate_shape(s0, same) ==
    LET the_id == s0.selected
    IN IF the_id = None THEN Raise(s0, "TclError")
       ELSE IF Find(s0.objlist, the_id) = 0 THEN Raise(s0, "AttributeError")
       ELSE
        LET prev_shape == s0.items[the_id].tags[1][1]
            prev_obj == s0.objlist[Find(s0.objlist, the_id)]
            newid == CreatedId(s0, prev_shape)
            s1 == create_shape(s0, prev_shape, prev_obj.linecolor,
                               Tag("oval", 2))
            coords == CanvasCoords(s1, the_id)
            coords_new == [k \in DOMAIN coords |-> coords[k] + 20]
            lastcoords == CanvasCoords(s1, Last(s1.objlist).id)
            lastfrac == CanvasFrac(s1, Last(s1.objlist).id)
            newsize == <<prev_obj.center[1] + 20, prev_obj.center[2] + 20>>
            collide == Collides(<<lastcoords, lastfrac>>,
                                <<coords_new, CanvasFrac(s1, the_id)>>, same)
            coords_set == IF collide
                          THEN [k \in DOMAIN coords_new |-> coords_new[k] + 20]
                          ELSE coords_new
            newsize_set == IF collide THEN <<newsize[1] + 20, newsize[2] + 20>>
                           ELSE newsize
            s2 == CanvasSetFrac(CanvasSetCoords(s1, newid, coords_set),
                                newid, CanvasFrac(s1, the_id))
        IN [s2 EXCEPT !.objlist =
                Append(@, Shape(newid, newsize_set, s2.linecolor))]

\* objlist.remove(whichone): whichone is an index, 0 for None
list_remove(s, whichone) ==
    IF whichone = 0 THEN Raise(s, "ValueError")
    ELSE [s EXCEPT !.objlist = RemoveAt(@, whichone)]

\* for item in idlist: the primitive is deleted, then the registry entry
RECURSIVE DeleteLoop(_, _, _)
DeleteLoop(s, idlist, n) ==
    IF n > Len(idlist) THEN s
    ELSE LET s1 == CanvasDelete(s, {idlist[n]})
         IN Then(list_remove(s1, Find(s1.objlist, idlist[n])),
                 LAMBDA a : DeleteLoop(a, idlist, n + 1))

\* the record of selected is removed and its primitive is left on the canvas
delete_shape_RegistryOnly(s0) ==
    Then(list_remove(s0, Find(s0.objlist, s0.selected)), LAMBDA a :
            IF Len(a.objlist) > 0
            THEN [a EXCEPT !.selected = Last(a.objlist).id]
            ELSE a)

\* selected is reset to the last-created shape before the deletion, not
\* after it
delete_shape_ResetFirst(s0) ==
    LET s1 == IF Len(s0.objlist) > 0
              THEN [s0 EXCEPT !.selected = Last(s0.objlist).id]
              ELSE s0
    IN IF Len(s1.multi_selected) > 0
       THEN DeleteLoop(s1, s1.multi_selected, 1)
       ELSE DeleteLoop(s1, <<s1.selected>>, 1)

\* Control+'x'
delete_shape(s0) ==
    LET s1 == IF Len(s0.multi_selected) > 0
              THEN DeleteLoop(s0, s0.multi_selected, 1)
              ELSE DeleteLoop(s0, <<s0.selected>>, 1)
    IN Then(s1, LAMBDA a :
            IF Len(a.objlist) > 0
            THEN [a EXCEPT !.selected = Last(a.objlist).id]
            ELSE a)

\* the Caps Lock bit is masked out of a Control state before the dispatch
handle_key_MaskCapsLock(s0, state, keysym, found, same) ==
    LET se == Enter(s0, "handle_key")
    IN CASE state = 1 ->
              IF keysym \in {"Left", "Right", "Up", "Down"}
              THEN nudge_location(Enter(se, "nudge_location"), keysym)
              ELSE se
         [] state \in {4, 6} ->
              CASE keysym = "d" -> duplicate_shape(Enter(se, "duplicate"), same)
                [] keysym = "r" ->
                     Then(release_multi_selection(Enter(se, "release")),
                          LAMBDA a : show_selected(a))
                [] keysym = "x" -> delete_shape(Enter(se, "delete"))
                [] OTHER -> se
         [] state = 8 ->
              CASE keysym = "r" -> show_selected(Enter(se, "show_selected"))
                [] keysym = "s" -> select_shape(Enter(se, "select_shape"), found)
                [] keysym = "b" ->
                     set_to_black(Enter(se, "set_to_black"), found, "black")
                [] OTHER -> se
         [] state \in {3, 10} -> Enter(se, "caps_lock")
         [] OTHER -> se

\* found: the item find_closest gives to Alt+'s' and Alt+'b'; same: the
\* outcome of the comparison of scaled boxes in Control+'d'
handle_key(s0, state, keysym, found, same) ==
    LET se == Enter(s0, "handle_key")
    IN CASE state = 1 ->
              IF keysym \in {"Left", "Right", "Up", "Down"}
              THEN nudge_location(Enter(se, "nudge_location"), keysym)
              ELSE se
         [] state = 4 ->
              CASE keysym = "d" -> duplicate_shape(Enter(se, "duplicate"), same)
                [] keysym = "r" ->
                     Then(release_multi_selection(Enter(se, "release")),
                          LAMBDA a : show_selected(a))
                [] keysym = "x" -> delete_shape(Enter(se, "delete"))
                [] OTHER -> se
         [] state = 8 ->
              CASE keysym = "r" -> show_selected(Enter(se, "show_selected"))
                [] keysym = "s" -> select_shape(Enter(se, "select_shape"), found)
                [] keysym = "b" ->
                     set_to_black(Enter(se, "set_to_black"), found, "black")
                [] OTHER -> se
         \* case 3 | 6 | 10: 'is Caps Lock on?'
         [] state \in {3, 6, 10} -> Enter(se, "caps_lock")
         [] OTHER -> se

\* The binding of the toplevel that Tk chooses for a key event with this
\* modifier state and keysym.  <Control-Up> and <Control-Down> (nudge_size)
\* name a key, so Tk prefers them to <Key>, <Shift-Key>, <Control-Key> and
\* <Alt-Key> (handle_key), and a pattern matches an event that carries
\* further modifiers: Control with Shift (5) or with Caps Lock (6) too.
ToplevelKey(s, state, keysym, found, same) ==
    IF (state \div 4) % 2 = 1 /\ keysym \in {"Up", "Down"}
    THEN [nudge_size(s, keysym) EXCEPT !.nmoves = @ + 1]
    ELSE LET h == handle_key(s, state, keysym, found, same)
         IN IF state = 1 /\ keysym \in {"Left", "Right", "Up", "Down"}
            THEN [h EXCEPT !.nmoves = @ + 1]
            ELSE h

\* set_shape_parameter(p, val): self.__dict__[p] = val
set_shape_parameter(s, p, val) == [s EXCEPT ![p] = val]

\* the `after` callback at the head of the queue runs
fire_after(s0) ==
    LET cb == Head(s0.pending)
        target == IF cb.late THEN s0.selected ELSE cb.id
    IN [CanvasFill(Enter(s0, "after"), {target}, "")
            EXCEPT !.pending = Tail(s0.pending)]

(***************************************************************************)
(* DrawCanvas                                                              *)
(***************************************************************************)
Modes == {"freehand", "lines"}

\* everything but the last element (list.pop)
Front(seq) == SubSeq(seq, 1, Len(seq) - 1)

\* DrawCanvas.__init__ after MyCanvas.__init__.  down and clicked are the
\* pointer as Tk sees it on this widget: button 1 is held; the last button
\* event was a press of button 1, so that a second press is a double click.
DrawCanvas(mode) ==
    [mode |-> mode,
     firstx |-> 0, firsty |-> 0, startx |-> 0, starty |-> 0,
     previousx |-> 0, previousy |-> 0, points |-> <<>>,
     line_count |-> 0, linetags |-> <<>>, last_line |-> <<>>,
     last_shape |-> <<>>,
     nextid |-> 1, items |-> <<>>,
     down |-> FALSE, clicked |-> FALSE]

\* the run ends with its tags left in linetags
end_run_KeepTags(c) ==
    [c EXCEPT !.firstx = 0, !.firsty = 0,
              !.last_shape = c.linetags,
              !.points = <<>>]

\* the end of a run: Control+click in draw_line, and connect_lines
end_run(c) ==
    [c EXCEPT !.firstx = 0, !.firsty = 0,
              !.last_shape = c.linetags,
              !.points = <<>>,
              !.linetags = <<>>]

draw_line(c, state, x, y) ==
    IF c.firstx = 0 /\ c.firsty = 0 THEN set_start(c, x, y)
    ELSE LET c1 == [c EXCEPT !.line_count = @ + 1]
             tagname == Tag("line", c1.line_count)
             c2 == CanvasCreate(c1, "line", <<c1.startx, c1.starty, x, y>>,
                                "", "black", <<tagname>>)
             c3 == [c2 EXCEPT !.linetags = Append(@, tagname),
                              !.last_line = Append(@, tagname)]
             c4 == set_start(c3, x, y)
         IN IF state = 4 THEN end_run(c4) ELSE c4

connect_lines(c, x, y) ==
    LET c1 == [c EXCEPT !.line_count = @ + 1]
        tagname == Tag("line", c1.line_count)
        c2 == CanvasCreate(c1, "line", <<x, y, c1.firstx, c1.firsty>>,
                           "", "black", <<tagname>>)
    IN end_run([c2 EXCEPT !.linetags = Append(@, tagname)])

undo_line(c) ==
    IF c.firstx = 0 /\ c.firsty = 0 THEN c
    ELSE LET c1 == IF Len(c.linetags) > 0
                   THEN [CanvasDelete(c, WithTag(c, Last(c.linetags)))
                            EXCEPT !.linetags = Front(c.linetags)]
                   ELSE c
         IN IF Len(c1.points) > 0
            THEN LET pts == Front(c1.points)
                 IN IF Len(pts) >= 1
                    THEN [c1 EXCEPT !.points = pts,
                                    !.startx = Last(pts)[1],
                                    !.starty = Last(pts)[2]]
                    ELSE [c1 EXCEPT !.points = pts]
            ELSE c1

\* the stroke is remembered but its tags stay in linetags
reset_line_KeepTags(c) == [c EXCEPT !.last_line = c.linetags]

reset_line(c) == [c EXCEPT !.last_line = c.linetags, !.linetags = <<>>]

\* for item in tags: cnv.delete(item)
DeleteTags(c, tags) ==
    CanvasDelete(c, {i \in DOMAIN c.items :
                        \E k \in DOMAIN tags : HasTag(c.items[i], tags[k])})

\* the loop over the children stops after the first one of the mode
erase_drawing_FirstSibling(d, drawtype) ==
    [m \in DOMAIN d |->
        IF \E j \in 1..(m - 1) : d[j].mode = d[m].mode THEN d[m]
        ELSE IF drawtype = "freehand"
        THEN IF d[m].mode = "freehand"
             THEN [DeleteTags(d[m], d[m].last_line) EXCEPT !.last_line = <<>>]
             ELSE d[m]
        ELSE IF d[m].mode = "lines"
             THEN [DeleteTags(d[m], d[m].last_shape) EXCEPT !.last_shape = <<>>]
             ELSE d[m]]

\* d: the DrawCanvas children of the frame
erase_drawing(d, drawtype) ==
    [m \in DOMAIN d |->
        IF drawtype = "freehand"
        THEN IF d[m].mode = "freehand"
             THEN [DeleteTags(d[m], d[m].last_line) EXCEPT !.last_line = <<>>]
             ELSE d[m]
        ELSE IF d[m].mode = "lines"
             THEN [DeleteTags(d[m], d[m].last_shape) EXCEPT !.last_shape = <<>>]
             ELSE d[m]]

\* the loop over the children stops after the first one of the mode
erase_all_FirstSibling(d, drawtype) ==
    [m \in DOMAIN d |->
        IF d[m].mode = drawtype /\ ~\E j \in 1..(m - 1) : d[j].mode = drawtype
        THEN [CanvasDelete(d[m], DOMAIN d[m].items) EXCEPT !.last_line = <<>>]
        ELSE d[m]]

erase_all(d, drawtype) ==
    [m \in DOMAIN d |->
        IF d[m].mode = drawtype
        THEN [CanvasDelete(d[m], DOMAIN d[m].items) EXCEPT !.last_line = <<>>]
        ELSE d[m]]

DrawCanvas_handle_key(d, state, keysym) ==
    CASE state = 4 ->
            CASE keysym \in {"l", "L"} -> erase_drawing(d, "lines")
              [] keysym \in {"f", "F"} -> erase_drawing(d, "freehand")
              [] OTHER -> d
      [] state = 5 ->
            CASE keysym \in {"f", "F"} -> erase_all(d, "freehand")
              [] keysym \in {"l", "L"} -> erase_all(d, "lines")
              [] OTHER -> d
      [] OTHER -> d

(***************************************************************************)
(* Events.                                                                 *)
(***************************************************************************)
Init ==
    /\ firstx = 0 /\ firsty = 0
    /\ startx = 0 /\ starty = 0
    /\ previousx = 0 /\ previousy = 0
    /\ points = <<>>
    /\ motionx = 0 /\ motiony = 0
    /\ linecolor = "black"
    /\ shapetags = <<>>
    /\ next_shape = "oval"
    /\ selected = None
    /\ multi_selected = <<>>
    /\ objlist = <<>>
    /\ oval_width = 20
    /\ oval_height = 20
    /\ rect_width = 20
    /\ rect_height = 20
    /\ arc_width = 30
    /\ arc_height = 25
    /\ nextid = 1
    /\ items = <<>>
    /\ pending = <<>>
    /\ err = "none"
    /\ op = "init"
    /\ nmoves = 0
    /\ draw = <<>>

\* over the children d: the lines drawn, the points recorded, the ids taken
RECURSIVE LinesDrawn(_)
LinesDrawn(d) ==
    IF d = <<>> THEN 0 ELSE Last(d).line_count + LinesDrawn(Front(d))

RECURSIVE PointsRecorded(_)
PointsRecorded(d) ==
    IF d = <<>> THEN 0 ELSE Len(Last(d).points) + PointsRecorded(Front(d))

RECURSIVE IdsTaken(_)
IdsTaken(d) ==
    IF d = <<>> THEN 0 ELSE (Last(d).nextid - 1) + IdsTaken(Front(d))

\* what the bounds of the model allow on the DrawCanvas children
DrawBounded(d) ==
    /\ LinesDrawn(d) <= MaxLines
    /\ PointsRecorded(d) <= MaxPoints
    /\ IdsTaken(d) <= MaxLines + 1

\* what the bounds of the model allow
Bounded(s) ==
    /\ s.nextid <= MaxId + 1
    /\ s.nmoves <= MaxMoves
    \* the scalings ScaleUnit holds exactly
    /\ s.nmoves <= 3
    /\ Len(s.pending) <= MaxPending
    /\ 2 * Len(s.points) <= MaxId
    /\ DrawBounded(s.draw)

\* a handler ran within the bounds of the model and left s
Done(s) == Commit(s) /\ Bounded(s)

\* one more nudge was handled
Moved(s) == [s EXCEPT !.nmoves = @ + 1]

\* modifier state and keysym of the key events delivered: every combination
\* handle_key acts on, and one it does not know for each modifier, for a
\* modifier with Caps Lock (6) and for no modifier (0)
NudgeKeys == {<<1, "Up">>, <<1, "Down">>, <<1, "Left">>, <<1, "Right">>}

OtherKeys == {<<1, "x">>, <<4, "q">>, <<8, "z">>, <<6, "x">>, <<0, "x">>}

\* key events with Caps Lock on (state bit 2): letters arrive as capitals
CapsKeys == {<<3, "Left">>, <<3, "X">>, <<6, "D">>, <<6, "X">>, <<6, "Up">>,
             <<6, "Down">>, <<10, "R">>, <<10, "B">>}

KeyEvents ==
    NudgeKeys \cup OtherKeys \cup CapsKeys \cup
    {<<4, "d">>, <<4, "r">>, <<4, "x">>, <<8, "r">>, <<8, "s">>, <<8, "b">>}

\* A handler that runs inside update(): its name h; the widget its event
\* is delivered to (k is 0 for the ShapeCanvas and for a key event of the
\* frame, else the number of the DrawCanvas child); and what the event
\* carries: the pointer position x, y; the modifier state; the keysym; the
\* item found by its find_closest; flag, which is constrain for drag_shape
\* and the outcome of the float comparison for handle_key; and the handlers
\* that run inside its own update().
QueuedEvent(h, k, x, y, state, keysym, found, flag, queued) ==
    [h |-> h, k |-> k, x |-> x, y |-> y, state |-> state, keysym |-> keysym,
     found |-> found, flag |-> flag, queued |-> queued]

\* a callback of `after` that is due
QueuedAfter == QueuedEvent("after", 0, 0, 0, 0, "", None, FALSE, <<>>)

\* <Shift-Motion>
QueuedDrag(p, constrain, queued) ==
    QueuedEvent("drag_shape", 0, p[1], p[2], 1, "", None, constrain, queued)

\* a key event of the ShapeCanvas
QueuedKey(ev, found, same) ==
    QueuedEvent("handle_key", 0, 0, 0, ev[1], ev[2], found, same, <<>>)

\* <Button-1> on a DrawCanvas of mode 'lines'
DrawQueuedClick(k, state, p) ==
    QueuedEvent("DrawCanvas.draw_line", k, p[1], p[2], state, "", None,
                FALSE, <<>>)

\* <Button-1> on a DrawCanvas of mode 'freehand'
DrawQueuedPress(k, p) ==
    QueuedEvent("DrawCanvas.set_start", k, p[1], p[2], 0, "", None, FALSE,
                <<>>)

\* <Motion> on a DrawCanvas
DrawQueuedMotion(k, queued) ==
    QueuedEvent("DrawCanvas.report_cursor_posn", k, 0, 0, 0, "", None, FALSE,
                queued)

\* a key event of the frame of the DrawCanvas widgets
DrawQueuedKey(ev) ==
    QueuedEvent("DrawCanvas.handle_key", 0, 0, 0, ev[1], ev[2], None, FALSE,
                <<>>)

\* the second press of a double click comes without substantial motion of
\* the pointer: at the point of the first press (the start of the next
\* segment), or a few pixels from it
DoubleClickOffsets == {<<0, 0>>, <<2, 1>>}

DoubleClickPoints(c) ==
    {<<c.startx + o[1], c.starty + o[2]>> : o \in DoubleClickOffsets}

\* the handler of the event e runs from s to its end, as the bindings of the
\* widget give it
RunEvent(s, e) ==
    CASE e.h = "after" -> fire_after(s)
      [] e.h = "setup_shape" -> setup_shape(s, e.x, e.y)
      [] e.h = "drag_shape" -> drag_shape(s, e.x, e.y, e.flag, e.queued)
      [] e.h = "resize_shape" -> Moved(resize_shape(s, e.x, e.y))
      [] e.h = "toggle_selection" -> toggle_selection(s, e.state, e.found)
      [] e.h = "toggle_multi_select" -> toggle_multi_select(s, e.found)
      [] e.h = "handle_key" ->
            ToplevelKey(s, e.state, e.keysym, e.found, e.flag)
      [] e.h = "nudge_size" -> Moved(nudge_size(s, e.keysym))
      [] e.h = "report_cursor_posn" -> report_cursor_posn(s, e.queued)
      [] e.h = "clear_cursor_posn" -> clear_cursor_posn(s)
      [] e.h = "DrawCanvas.handle_key" ->
            ToplevelKey(
                [s EXCEPT !.draw = DrawCanvas_handle_key(@, e.state, e.keysym)],
                e.state, e.keysym, None, TRUE)
      [] e.h = "DrawCanvas.report_cursor_posn" ->
            DrawCanvas_report_cursor_posn(s, e.k, e.queued)
      [] e.h = "DrawCanvas.clear_cursor_posn" ->
            [s EXCEPT !.draw[e.k] = clear_cursor_posn(@)]
      [] e.h = "DrawCanvas.draw_line" ->
            [s EXCEPT !.draw[e.k] =
                IF e.state = 256 THEN draw_line(@, 256, e.x, e.y)
                ELSE [draw_line(@, e.state, e.x, e.y)
                        EXCEPT !.clicked = TRUE]]
      [] e.h = "DrawCanvas.connect_lines" ->
            [s EXCEPT !.draw[e.k] = connect_lines(@, e.x, e.y)]
      [] e.h = "DrawCanvas.undo_line" ->
            [s EXCEPT !.draw[e.k] = [undo_line(@) EXCEPT !.clicked = FALSE]]
      [] e.h = "DrawCanvas.set_start" ->
            [s EXCEPT !.draw[e.k] =
                [set_start(@, e.x, e.y) EXCEPT !.down = TRUE]]
      [] e.h = "DrawCanvas.reset_line" ->
            [s EXCEPT !.draw[e.k] = [reset_line(@) EXCEPT !.down = FALSE]]

RunQueued(s, queued) ==
    IF queued = <<>> THEN s
    ELSE RunQueued(RunEvent(s, Head(queued)), Tail(queued))

\* the events of queued can be delivered one after the other from s: a
\* callback is waiting when one runs, a lookup gives an item that is on
\* the canvas at that time, and an event of a DrawCanvas finds the child,
\* the mode and the button state its binding needs
RECURSIVE QueuedOk(_, _)

EventOk(s, e) ==
    CASE e.h = "after" -> s.pending # <<>>
      [] e.h \in {"toggle_selection", "toggle_multi_select"} ->
            e.found \in FindClosest(s)
      [] e.h = "handle_key" ->
            e.found \in (IF e.state = 8 /\ e.keysym \in {"s", "b"}
                         THEN FindClosest(s) ELSE {None})
      [] e.h = "drag_shape" ->
            IF s.selected = None THEN e.queued = <<>>
            ELSE QueuedOk(clear_cursor_posn(s), e.queued)
      [] e.h = "report_cursor_posn" ->
            QueuedOk(clear_cursor_posn(s), e.queued)
      [] e.h = "DrawCanvas.handle_key" ->
            s.draw # <<>> /\ \A k \in DOMAIN s.draw : ~s.draw[k].down
      [] e.h = "DrawCanvas.report_cursor_posn" ->
            IF e.k \in DOMAIN s.draw
            THEN /\ ~s.draw[e.k].down
                 /\ QueuedOk([s EXCEPT !.draw[e.k] = clear_cursor_posn(@)],
                             e.queued)
            ELSE FALSE
      [] e.h = "DrawCanvas.clear_cursor_posn" -> e.k \in DOMAIN s.draw
      [] e.h = "DrawCanvas.draw_line" ->
            IF e.k \in DOMAIN s.draw
            THEN IF e.state = 256
                 THEN s.draw[e.k].mode = "freehand" /\ s.draw[e.k].down
                 ELSE s.draw[e.k].mode = "lines"
            ELSE FALSE
      [] e.h = "DrawCanvas.connect_lines" ->
            IF e.k \in DOMAIN s.draw
            THEN /\ s.draw[e.k].mode = "lines"
                 /\ s.draw[e.k].clicked
                 /\ <<e.x, e.y>> \in DoubleClickPoints(s.draw[e.k])
            ELSE FALSE
      [] e.h = "DrawCanvas.undo_line" ->
            IF e.k \in DOMAIN s.draw THEN s.draw[e.k].mode = "lines"
            ELSE FALSE
      [] e.h = "DrawCanvas.set_start" ->
            IF e.k \in DOMAIN s.draw
            THEN s.draw[e.k].mode = "freehand" /\ ~s.draw[e.k].down
            ELSE FALSE
      [] e.h = "DrawCanvas.reset_line" ->
            IF e.k \in DOMAIN s.draw
            THEN s.draw[e.k].mode = "freehand" /\ s.draw[e.k].down
            ELSE FALSE
      [] OTHER -> TRUE

QueuedOk(s, queued) ==
    IF queued = <<>> THEN TRUE
    ELSE /\ EventOk(s, Head(queued))
         /\ QueuedOk(RunEvent(s, Head(queued)), Tail(queued))

\* the points of the pointer events on a DrawCanvas
DrawPoints == {<<0, 0>>, <<10, 10>>}

\* modifier state and keysym of the key events of the frame: the four that
\* DrawCanvas.handle_key acts on, and two that it does not know
DrawKeys ==
    {<<4, "l">>, <<4, "f">>, <<5, "f">>, <<5, "l">>, <<4, "q">>, <<0, "f">>}

\* the events of every widget with at most n levels of update() inside
\* them, and the sequences of at most n of them
RECURSIVE Queues(_)

QueuedEvents(n) ==
    {QueuedAfter}
    \cup {QueuedKey(ev, found, same) : ev \in KeyEvents, found \in 0..MaxId,
                                       same \in BOOLEAN}
    \cup {QueuedDrag(p, c, q) : p \in PointerPoints, c \in BOOLEAN,
                                q \in Queues(n)}
    \* <Button-1>
    \cup {QueuedEvent("setup_shape", 0, p[1], p[2], 0, "", None, FALSE, <<>>) :
            p \in PointerPoints}
    \* <Control-Motion>
    \cup {QueuedEvent("resize_shape", 0, p[1], p[2], 4, "", None, FALSE,
                      <<>>) : p \in PointerPoints}
    \* <Button-3>, <Shift-Button-3>
    \cup {QueuedEvent("toggle_selection", 0, 0, 0, state, "", found, FALSE,
                      <<>>) : state \in {0, 1}, found \in 0..MaxId}
    \* <Control-Button-3>
    \cup {QueuedEvent("toggle_multi_select", 0, 0, 0, 4, "", found, FALSE,
                      <<>>) : found \in 0..MaxId}
    \* <Control-Up>, <Control-Down>
    \cup {QueuedEvent("nudge_size", 0, 0, 0, 4, keysym, None, FALSE, <<>>) :
            keysym \in {"Up", "Down"}}
    \* <Motion>
    \cup {QueuedEvent("report_cursor_posn", 0, 0, 0, 0, "", None, FALSE, q) :
            q \in Queues(n)}
    \* <Leave>
    \cup {QueuedEvent("clear_cursor_posn", 0, 0, 0, 0, "", None, FALSE, <<>>)}
    \* the DrawCanvas widgets
    \cup {DrawQueuedKey(ev) : ev \in DrawKeys}
    \cup UNION {
        {DrawQueuedClick(k, state, p) : state \in {0, 4}, p \in DrawPoints}
        \cup {DrawQueuedPress(k, p) : p \in DrawPoints}
        \cup {DrawQueuedMotion(k, q) : q \in Queues(n)}
        \* <Button1-Motion>
        \cup {QueuedEvent("DrawCanvas.draw_line", k, p[1], p[2], 256, "",
                          None, FALSE, <<>>) : p \in DrawPoints}
        \* <Double-1>
        \cup {QueuedEvent("DrawCanvas.connect_lines", k, p[1] + o[1],
                          p[2] + o[2], 0, "", None, FALSE, <<>>) :
                p \in DrawPoints, o \in DoubleClickOffsets}
        \* <Button-3>, <ButtonRelease-1>, <Leave>
        \cup {QueuedEvent("DrawCanvas.undo_line", k, 0, 0, 0, "", None,
                          FALSE, <<>>),
              QueuedEvent("DrawCanvas.reset_line", k, 0, 0, 256, "", None,
                          FALSE, <<>>),
              QueuedEvent("DrawCanvas.clear_cursor_posn", k, 0, 0, 0, "",
                          None, FALSE, <<>>)}
        : k \in 1..MaxCanvases}

Queues(n) ==
    IF n = 0 THEN {<<>>}
    ELSE {<<>>} \cup {<<e>> \o q : e \in QueuedEvents(n - 1),
                                   q \in Queues(n - 1)}

\* what is waiting when the update() of a drag is called, in the parts of
\* the event stream examined below: nothing; the callback that ends a flash;
\* the next motion of the drag; the key that deletes the selection
DragQueues ==
    {<<>>,
     <<QueuedAfter>>,
     <<QueuedDrag(<<15, 8>>, FALSE, <<>>)>>,
     <<QueuedKey(<<4, "x">>, None, TRUE)>>}

\* the same for a constrained drag: nothing, its next motion, or a click on
\* a DrawCanvas
ConstrainQueues ==
    {<<>>,
     <<QueuedDrag(<<10, 13>>, TRUE, <<>>)>>,
     <<DrawQueuedClick(1, 0, <<10, 10>>)>>}

\* <Button-1>
SetupShapeAt(p) ==
    Done(setup_shape(St, p[1], p[2]))

SetupShape == \E p \in PointerPoints : SetupShapeAt(p)

\* <Shift-Motion>, and drag_shape called with constrain=True, with the
\* handlers of queued waiting when it calls update()
DragShapeAt(p, constrain, queued) ==
    /\ EventOk(St, QueuedDrag(p, constrain, queued))
    /\ Done(drag_shape(St, p[1], p[2], constrain, queued))

DragShapeIn(queues) ==
    \E p \in PointerPoints, constrain \in BOOLEAN, queued \in queues :
        DragShapeAt(p, constrain, queued)

\* <Motion> and <Leave> on the ShapeCanvas (bound in MyCanvas.__init__)
ShapeMotion ==
    \E queued \in Queues(MaxQueued) :
        /\ QueuedOk(clear_cursor_posn(St), queued)
        /\ Done(report_cursor_posn(St, queued))

ShapeLeave ==
    /\ WithTag(St, Tag("text", 1)) # {}
    /\ Commit(clear_cursor_posn(St))

\* <Control-Motion>
ResizeShapeAt(p) ==
    Done(Moved(resize_shape(St, p[1], p[2])))

ResizeShape == \E p \in PointerPoints : ResizeShapeAt(p)

\* <Button-3>
ToggleSelectionAt(state, found) ==
    Done(toggle_selection(St, state, found))

ToggleSelection ==
    \E state \in {0, 1}, found \in FindClosest(St) :
        ToggleSelectionAt(state, found)

\* <Control-Button-3>
ToggleMultiSelectAt(found) ==
    Done(toggle_multi_select(St, found))

ToggleMultiSelect == \E found \in FindClosest(St) : ToggleMultiSelectAt(found)

\* a key event of the toplevel (<Key>, <Shift-Key>, <Control-Key>, <Alt-Key>,
\* <Control-Up>, <Control-Down>), for the key events of evs; the pointer
\* lookup is made by Alt+'s' and Alt+'b' only
HandleKeyAt(ev, found, same) ==
    Done(ToplevelKey(St, ev[1], ev[2], found, same))

HandleKeyIn(evs) ==
    \E ev \in evs :
      \E found \in (IF ev[1] = 8 /\ ev[2] \in {"s", "b"}
                    THEN FindClosest(St) ELSE {None}),
         same \in (IF ev = <<4, "d">> THEN BOOLEAN ELSE {TRUE}) :
        HandleKeyAt(ev, found, same)

HandleKey == HandleKeyIn(KeyEvents)

\* <Control-Up>, <Control-Down>: Tk gives these to the more specific binding
NudgeSize ==
    \E keysym \in {"Up", "Down"} :
        Done(Moved(nudge_size(St, keysym)))

\* a scheduled callback runs
FireAfter ==
    /\ pending # <<>>
    /\ Commit(fire_after(St))

\* the host sets the public attributes next_shape and linecolor
SetNextShape ==
    \E k \in NextShapes : next_shape # k /\ Commit([St EXCEPT !.next_shape = k])

SetLineColor ==
    \E c \in LineColors : linecolor # c /\ Commit([St EXCEPT !.linecolor = c])

\* the values a caller of set_shape_parameter gives to the attribute p: a
\* shape name, a color, None or an item id (Tk numbers items from 1), a
\* coordinate, the empty list, a shape size
ParameterValues(p) ==
    CASE p = "next_shape" -> NextShapes
      [] p = "linecolor" -> LineColors
      [] p = "selected" -> {None} \cup 1..(MaxId + 1)
      [] p \in {"points", "shapetags", "multi_selected", "objlist"} -> {<<>>}
      [] p \in {"oval_width", "oval_height", "rect_width", "rect_height",
                "arc_width", "arc_height"} -> {20, 25, 30}
      [] OTHER -> {0, 5, 10}

\* the host calls set_shape_parameter on an attribute of the ShapeCanvas
SetShapeParameter ==
    \E p \in {"firstx", "firsty", "startx", "starty", "previousx",
               "previousy", "points", "motionx", "motiony", "linecolor",
               "shapetags", "next_shape", "selected", "multi_selected",
               "objlist", "oval_width", "oval_height", "rect_width",
               "rect_height", "arc_width", "arc_height"} :
        \E val \in ParameterValues(p) :
            St[p] # val /\ Commit(set_shape_parameter(St, p, val))

\* the host calls nudge_size_orig, with Up, Down or another key
NudgeSizeOrig ==
    \E keysym \in {"Up", "Down", "x"} :
        Done(Moved(nudge_size_orig(St, keysym)))

\* the host calls nudge_location_orig, with one of three steps
NudgeLocationOrig ==
    \E d \in {<<5, 0>>, <<1, 0>>, <<0, -1>>} :
        Done(Moved(nudge_location_orig(St, d[1], d[2])))

\* a handler ran on child k and left it as c; the ShapeCanvas is not touched
DrawCommit(k, c) ==
    /\ DrawBounded([draw EXCEPT ![k] = c])
    /\ draw' = [draw EXCEPT ![k] = c]
    /\ Write(St)

\* the host constructs one more DrawCanvas in the frame
NewDrawCanvasOf(mode) ==
    /\ Len(draw) < MaxCanvases
    /\ draw' = Append(draw, DrawCanvas(mode))
    /\ Write(St)

\* <Button-1> in mode 'lines'; state 4 is Control
ClickAt(k, state, p) ==
    /\ k \in DOMAIN draw
    /\ draw[k].mode = "lines"
    /\ DrawCommit(k, [draw_line(draw[k], state, p[1], p[2])
                        EXCEPT !.clicked = TRUE])

Click == \E k \in DOMAIN draw, state \in {0, 4}, p \in DrawPoints :
            ClickAt(k, state, p)

\* <Double-1> in mode 'lines': the second press of a double click, at p
DoubleClickAt(k, p) ==
    /\ k \in DOMAIN draw
    /\ draw[k].mode = "lines"
    /\ draw[k].clicked
    /\ p \in DoubleClickPoints(draw[k])
    /\ DrawCommit(k, connect_lines(draw[k], p[1], p[2]))

DoubleClick ==
    \E k \in DOMAIN draw : \E p \in DoubleClickPoints(draw[k]) :
        DoubleClickAt(k, p)

\* <Button-3> in mode 'lines'
UndoAt(k) ==
    /\ k \in DOMAIN draw
    /\ draw[k].mode = "lines"
    /\ DrawCommit(k, [undo_line(draw[k]) EXCEPT !.clicked = FALSE])

Undo == \E k \in DOMAIN draw : UndoAt(k)

\* <Button-1> in mode 'freehand'
PressAt(k, p) ==
    /\ k \in DOMAIN draw
    /\ draw[k].mode = "freehand"
    /\ ~draw[k].down
    /\ DrawCommit(k, [set_start(draw[k], p[1], p[2]) EXCEPT !.down = TRUE])

Press == \E k \in DOMAIN draw, p \in DrawPoints : PressAt(k, p)

\* <Button1-Motion> in mode 'freehand': the state of the event has the
\* button-1 bit (256) set
StrokeAt(k, p) ==
    /\ k \in DOMAIN draw
    /\ draw[k].mode = "freehand"
    /\ draw[k].down
    /\ DrawCommit(k, draw_line(draw[k], 256, p[1], p[2]))

Stroke == \E k \in DOMAIN draw, p \in DrawPoints : StrokeAt(k, p)

\* <ButtonRelease-1> in mode 'freehand'
ReleaseAt(k) ==
    /\ k \in DOMAIN draw
    /\ draw[k].mode = "freehand"
    /\ draw[k].down
    /\ DrawCommit(k, [reset_line(draw[k]) EXCEPT !.down = FALSE])

Release == \E k \in DOMAIN draw : ReleaseAt(k)

\* <Motion> with no button held, in either mode, with the handlers of
\* queued waiting when it calls update()
DrawMotionAt(k, queued) ==
    /\ EventOk(St, DrawQueuedMotion(k, queued))
    /\ Done(DrawCanvas_report_cursor_posn(St, k, queued))

\* what is waiting when the update() of a motion on the child k is called,
\* in the parts of the event stream examined below: nothing; the next
\* motion; a click or a press on the child; the key that erases
DrawMotionQueued ==
    \E k \in DOMAIN draw :
        \E queued \in {<<>>,
                       <<DrawQueuedMotion(k, <<>>)>>,
                       <<DrawQueuedClick(k, 0, <<10, 10>>)>>,
                       <<DrawQueuedPress(k, <<10, 10>>)>>,
                       <<DrawQueuedKey(<<4, "f">>)>>} :
            DrawMotionAt(k, queued)

\* <Leave>, with or without a button held
DrawLeave ==
    \E k \in DOMAIN draw :
        /\ WithTag(draw[k], Tag("text", 1)) # {}
        /\ DrawCommit(k, clear_cursor_posn(draw[k]))

\* A key event of the frame.  Its bindings run first: <Key>, bound by the
\* DrawCanvas constructed last; then the bindings of the toplevel, which is
\* among the binding tags of the frame.  An exception in the first is
\* reported by tkinter and does not stop the second.  While button 1 is
\* held the state of a key event has the button-1 bit set and is none of
\* the states handle_key knows.
DrawKeyAt(ev) ==
    /\ draw # <<>>
    /\ \A k \in DOMAIN draw : ~draw[k].down
    /\ Done(ToplevelKey(
                [St EXCEPT !.draw = DrawCanvas_handle_key(@, ev[1], ev[2])],
                ev[1], ev[2], None, TRUE))

DrawKey == \E ev \in DrawKeys : DrawKeyAt(ev)

Next ==
    \/ SetupShape
    \/ ShapeMotion
    \/ ShapeLeave
    \/ DragShapeIn(Queues(MaxQueued))
    \/ ResizeShape
    \/ ToggleSelection
    \/ ToggleMultiSelect
    \/ HandleKey
    \/ NudgeSize
    \/ FireAfter
    \/ SetNextShape
    \/ SetLineColor
    \/ SetShapeParameter
    \/ NudgeLocationOrig
    \/ NudgeSizeOrig
    \/ \E mode \in Modes : NewDrawCanvasOf(mode)
    \/ Click
    \/ DoubleClick
    \/ Undo
    \/ Press
    \/ Stroke
    \/ Release
    \/ \E k \in DOMAIN draw, queued \in Queues(MaxQueued) :
            DrawMotionAt(k, queued)
    \/ DrawLeave
    \/ DrawKey

Spec == Init /\ [][Next]_vars

(***************************************************************************)
(* Parts of the event stream: the events that write what a group of        *)
(* handlers reads.                                                         *)
(***************************************************************************)
KeyDelete == HandleKeyIn({<<4, "x">>})

KeyNudge == HandleKeyIn(NudgeKeys)

KeyDuplicate == HandleKeyIn({<<4, "d">>})

KeyRelease == HandleKeyIn({<<4, "r">>})

\* creation without deletion, for every next_shape
SpecCreate ==
    /\ Init
    /\ [][\/ SetupShape
          \/ SetNextShape
          \/ ToggleMultiSelect]_vars

\* selection, multi-selection and deletion
SpecSelect ==
    /\ Init
    /\ [][\/ SetupShape
          \/ ToggleSelection
          \/ ToggleMultiSelect
          \/ KeyDelete
          \/ FireAfter]_vars

\* deletion with nothing selected: before the first shape, and after the
\* host has set selected to None with set_shape_parameter
SpecNoSelection ==
    /\ Init
    /\ [][\/ SetupShape
          \/ ToggleMultiSelect
          \/ selected # None /\ Commit(set_shape_parameter(St, "selected", None))
          \/ KeyDelete]_vars

\* nudging the selection; every shape is created at one point
NudgePoint == <<15, 8>>

SpecNudge ==
    /\ Init
    /\ [][\/ SetupShapeAt(NudgePoint)
          \/ ToggleMultiSelect
          \/ KeyNudge
          \/ KeyDelete]_vars

\* a polyline canvas, the first DrawCanvas of the frame
FirstLinesCanvas == draw = <<>> /\ NewDrawCanvasOf("lines")

SpecPolyline ==
    /\ Init
    /\ [][\/ FirstLinesCanvas
          \/ Click
          \/ DoubleClick
          \/ Undo]_vars

\* the pointer of the DrawCanvas events of SpecErase
ErasePoint == <<10, 10>>

\* Sibling canvases: the first two children are of any modes, so that two
\* siblings of one mode are erased together and a sibling of the other
\* mode stands beside an erased one; a child after two siblings of one
\* mode is of the other mode.  A polyline ends with a double click; no
\* undo; the pointer moves without a button over the first child only,
\* when that child shows no cursor text, and nothing waits when its motion
\* calls update().
SpecErase ==
    /\ Init
    /\ [][\/ \E mode \in Modes :
                /\ Len(draw) >= 2 =>
                        draw[1].mode = draw[2].mode /\ mode # draw[1].mode
                /\ NewDrawCanvasOf(mode)
          \/ \E k \in DOMAIN draw : ClickAt(k, 0, ErasePoint)
          \/ \E k \in DOMAIN draw : DoubleClickAt(k, ErasePoint)
          \/ \E k \in DOMAIN draw : PressAt(k, ErasePoint)
          \/ \E k \in DOMAIN draw : StrokeAt(k, ErasePoint)
          \/ Release
          \/ /\ draw # <<>>
             /\ WithTag(draw[1], Tag("text", 1)) = {}
             /\ DrawMotionAt(1, <<>>)
          \/ DrawKey]_vars

\* duplicates, for both line colors
SpecDuplicate ==
    /\ Init
    /\ [][\/ SetupShape
          \/ SetLineColor
          \/ KeyDuplicate]_vars

\* the release of the multi-selection, for both line colors
SpecRelease ==
    /\ Init
    /\ [][\/ SetupShape
          \/ SetLineColor
          \/ ToggleMultiSelect
          \/ KeyRelease
          \/ FireAfter]_vars

\* Shift+secondary click after creations, duplicates and deletions
SpecUnselect ==
    /\ Init
    /\ [][\/ SetupShape
          \/ KeyDuplicate
          \/ KeyDelete
          \/ ToggleSelection
          \/ FireAfter]_vars

\* dragging the selection: the shapes are made at one point, and
\* <Shift-Motion> calls drag_shape with the default of constrain
SpecDrag ==
    /\ Init
    /\ [][\/ SetupShapeAt(ErasePoint)
          \/ ToggleMultiSelect
          \/ \E p \in PointerPoints, queued \in DragQueues :
                  DragShapeAt(p, FALSE, queued)
          \/ KeyDelete
          \/ FireAfter]_vars

\* the operations that need a selection, with and without one
SpecGuard ==
    /\ Init
    /\ [][\/ SetupShape
          \/ DragShapeIn(DragQueues)
          \/ ResizeShape
          \/ KeyNudge
          \/ NudgeSize
          \/ KeyDuplicate
          \/ KeyDelete]_vars

\* highlight flashes, creation and deletion
SpecFlash ==
    /\ Init
    /\ [][\/ SetupShape
          \/ HandleKeyIn({<<8, "r">>})
          \/ KeyDelete
          \/ FireAfter]_vars

KeyIgnored == HandleKeyIn(OtherKeys \cup CapsKeys)

\* key events handle_key has no case for, with shapes and a multi-selection;
\* every shape is created at one point
SpecKeys ==
    /\ Init
    /\ [][\/ SetupShapeAt(NudgePoint)
          \/ ToggleMultiSelect
          \/ KeyIgnored
          \/ KeyDelete]_vars

\* strokes on a freehand canvas, the first DrawCanvas of the frame, the
\* cursor report and the erase keys; every stroke starts at one point
SpecStroke ==
    /\ Init
    /\ [][\/ draw = <<>> /\ NewDrawCanvasOf("freehand")
          \/ \E k \in DOMAIN draw : PressAt(k, ErasePoint)
          \/ Stroke
          \/ Release
          \/ DrawMotionQueued
          \/ DrawKey]_vars

\* create, duplicate, delete, select and multi-select; every shape is
\* created at one point
SpecRegistry ==
    /\ Init
    /\ [][\/ SetupShapeAt(NudgePoint)
          \/ KeyDuplicate
          \/ KeyDelete
          \/ ToggleSelection
          \/ ToggleMultiSelect
          \/ FireAfter]_vars

\* resizing the selection; the pointer moves between the two points
SpecResize ==
    /\ Init
    /\ [][\/ SetupShape
          \/ ToggleMultiSelect
          \/ ResizeShape
          \/ FireAfter]_vars

\* size nudges of the selection and of a multi-selection, with deletion
SpecSize ==
    /\ Init
    /\ [][\/ SetupShapeAt(NudgePoint)
          \/ ToggleMultiSelect
          \/ NudgeSize
          \/ KeyDelete
          \/ FireAfter]_vars

\* multi-selection and recolor
SpecOutline ==
    /\ Init
    /\ [][\/ SetupShape
          \/ SetLineColor
          \/ ToggleMultiSelect
          \/ HandleKeyIn({<<8, "b">>})
          \/ FireAfter]_vars

\* pointer positions of a constrained drag: from a start at (10,10) or (15,8)
\* they lie mostly along x, mostly along y, and within one pixel of the diagonal
ConstrainPoints == PointerPoints \cup {<<10, 13>>, <<11, 11>>, <<12, 11>>}

\* drag_shape called with constrain=True
ConstrainedDrag ==
    \E p \in ConstrainPoints, queued \in ConstrainQueues :
        DragShapeAt(p, TRUE, queued)

\* constrained dragging of the selection, beside a polyline canvas
SpecConstrain ==
    /\ Init
    /\ [][\/ SetupShape
          \/ ToggleMultiSelect
          \/ ConstrainedDrag
          \/ FirstLinesCanvas]_vars

(***************************************************************************)
(* Properties.                                                             *)
(***************************************************************************)
Ids(ol) == {ol[i].id : i \in DOMAIN ol}

\* C1: with a next_shape create_shape knows, a primary click appends exactly
\* one record to objlist, after the records already there; its id is the id
\* of no other record and its center is the point clicked.  From an empty
\* registry, N clicks without a deletion therefore leave N records with
\* pairwise distinct ids.
C1_ClickAppendsOneShape ==
    [][\A p \in PointerPoints :
        (next_shape \in ShapeKinds /\ SetupShapeAt(p)) =>
            /\ Len(objlist') = Len(objlist) + 1
            /\ SubSeq(objlist', 1, Len(objlist)) = objlist
            /\ Last(objlist').id \notin Ids(objlist)
            /\ Last(objlist').center = p]_vars

\* three clicks, no deletion: three records, each at its click point
C1_Witness ==
    /\ op = "setup_shape"
    /\ Len(objlist) = 3
    /\ Cardinality(Ids(objlist)) = 3
    /\ Len(points) = 3
    /\ \A i \in 1..3 : objlist[i].center = points[i]
    /\ points[1] # points[2]

\* C2: after a primary click that created a shape, selected is the id of
\* the new shape and multi_selected is empty, whatever they were before.
C2_CreateSelectsNewShape ==
    [][\A p \in PointerPoints :
        (next_shape \in ShapeKinds /\ SetupShapeAt(p)) =>
            /\ selected' = nextid
            /\ selected' \notin DOMAIN items
            /\ selected' \in DOMAIN items'
            /\ items'[selected'].type = next_shape
            /\ selected' = Last(objlist').id
            /\ multi_selected' = <<>>]_vars

\* a shape was created while another one was multi-selected (it still has
\* the grey outline of the multi-selection)
C2_Witness ==
    /\ op = "setup_shape"
    /\ Len(objlist) >= 2
    /\ selected = Last(objlist).id
    /\ multi_selected = <<>>
    /\ \E i \in DOMAIN items : items[i].outline = "grey"

\* C3: Control+'x' with selected None and multi_selected empty leaves
\* objlist as it was.
C3_DeleteWithoutSelection ==
    [][(selected = None /\ multi_selected = <<>> /\ HandleKeyAt(<<4, "x">>, None, TRUE))
        => objlist' = objlist]_vars

\* the delete ran with nothing selected (the host had set selected to
\* None): objlist.remove(None) raised, and the registry still has its two
\* shapes, each with its primitive
C3_Witness ==
    /\ op = "delete"
    /\ err = "ValueError"
    /\ selected = None
    /\ multi_selected = <<>>
    /\ Len(objlist) = 2
    /\ \A i \in DOMAIN objlist : objlist[i].id \in DOMAIN items

\* C4 (as claimed): after Control+'x', selected is the id of the last entry
\* of objlist if there is one, and None if objlist is empty.
C4_SelectedAfterDelete ==
    [][HandleKeyAt(<<4, "x">>, None, TRUE) =>
        IF objlist' # <<>> THEN selected' = Last(objlist').id
        ELSE selected' = None]_vars

\* the ids an operation on the selection is for
Targets ==
    IF multi_selected # <<>> THEN Range(multi_selected) ELSE {selected}

\* C5 (as claimed): Control+'x' removes from objlist and from the canvas
\* exactly the ids of multi_selected if it is not empty, else exactly
\* selected.

C5_DeleteRemovesTargets ==
    [][HandleKeyAt(<<4, "x">>, None, TRUE) =>
        /\ Ids(objlist') = Ids(objlist) \ Targets
        /\ DOMAIN items' = (DOMAIN items) \ Targets]_vars

\* the shapes the lookup of a secondary click can find
FoundShapes == Ids(objlist) \cap DOMAIN items

\* two Control+secondary clicks in a row that find the shape f
ToggledTwice(f) == toggle_multi_select(toggle_multi_select(St, f), f)

\* C6 (as claimed): two multi-select toggles in a row of the same shape leave
\* the set of ids of multi_selected and the outline of the shape as they were
\* before the first one.
C6_ToggleTwiceRestores ==
    \A f \in FoundShapes :
        selected # None =>
            /\ Range(ToggledTwice(f).multi_selected) = Range(multi_selected)
            /\ ToggledTwice(f).items[f].outline = items[f].outline

\* C7: a multi-select toggle that adds the found shape to multi_selected or
\* removes it from multi_selected leaves selected as it was.
C7_ToggleKeepsSelected ==
    [][\A f \in FindClosest(St) :
        (ToggleMultiSelectAt(f) /\ multi_selected' # multi_selected)
            => selected' = selected]_vars

\* a shape other than the selected one was toggled into multi_selected
C7_Witness ==
    /\ op = "toggle_multi_select"
    /\ err = "none"
    /\ multi_selected # <<>>
    /\ selected \in Ids(objlist)
    /\ selected \notin Range(multi_selected)
    /\ items[Last(multi_selected)].outline = "grey"

Opposite(keysym) ==
    CASE keysym = "Up" -> "Down"
      [] keysym = "Down" -> "Up"
      [] keysym = "Left" -> "Right"
      [] keysym = "Right" -> "Left"

\* k Shift+arrow key events in a row
RECURSIVE Nudged(_, _, _)
Nudged(s, keysym, k) ==
    IF k = 0 THEN s ELSE Nudged(handle_key(s, 1, keysym, None, TRUE), keysym, k - 1)

Centers(s) == [i \in DOMAIN s.objlist |-> s.objlist[i].center]

\* C8: k location nudges in one direction and then k in the opposite one,
\* with no other event between them, leave the center of every record of
\* objlist as it was before the first one.
C8_NudgeRoundTrip ==
    \A keysym \in {"Up", "Down", "Left", "Right"}, k \in 1..MaxNudge :
        selected # None =>
            Centers(Nudged(Nudged(St, keysym, k), Opposite(keysym), k))
                = Centers(St)

\* a multi-selected shape after two nudges that took its center and its
\* rendered box back to the click point
C8_Witness ==
    /\ op = "nudge_location"
    /\ err = "none"
    /\ nmoves = 2
    /\ multi_selected # <<>>
    /\ Len(objlist) = 1
    /\ Len(points) = 1
    /\ nextid = 6
    /\ objlist[1].center = points[1]
    /\ items[objlist[1].id].coords =
         <<points[1][1] - oval_width, points[1][2] - oval_height,
           points[1][1] + oval_width, points[1][2] + oval_height>>

\* C9 (as claimed): a location nudge adds its step once to the center of
\* every record whose id is in multi_selected (of selected if multi_selected
\* is empty) and to no other center, and moves the rendered shapes of the
\* same ids and no other.
C9_NudgeMovesTargets ==
    [][\A ev \in NudgeKeys :
        (selected # None /\ HandleKeyAt(ev, None, TRUE)) =>
            LET dx == NudgeStep(ev[2])[1]
                dy == NudgeStep(ev[2])[2]
            IN /\ Len(objlist') = Len(objlist)
               /\ \A i \in DOMAIN objlist :
                    objlist'[i].center =
                        IF objlist[i].id \in Targets
                        THEN <<objlist[i].center[1] + dx,
                               objlist[i].center[2] + dy>>
                        ELSE objlist[i].center
               /\ \A id \in FoundShapes :
                    items'[id].coords =
                        IF id \in Targets
                        THEN MoveCoords(items[id].coords, dx, dy)
                        ELSE items[id].coords]_vars

Sgn(n) == IF n > 0 THEN 1 ELSE IF n < 0 THEN -1 ELSE 0

\* the ShapeCanvas as drag_shape finds it when its report_cursor_posn
\* returns: the handlers of queued ran inside update()
Updated(queued) == report_cursor_posn(St, queued)

\* the shapes a drag moves from the state u
TargetsOf(u) ==
    IF Len(u.multi_selected) > 0 THEN Range(u.multi_selected)
    ELSE {u.selected}

\* C10: an unconstrained drag moves by the sign of the pointer coordinate
\* minus the recorded previous one, on each axis: the center of the selected
\* record and the rendered shapes dragged advance by exactly that step.
\* The previous position, the selection and the shapes are those the handler
\* reads, after the handlers waiting at its update() ran.
C10_DragStepIsSign ==
    [][\A p \in PointerPoints, queued \in DragQueues :
        (/\ selected # None
         /\ op' = "drag_shape"
         /\ DragShapeAt(p, FALSE, queued)
         /\ Updated(queued).selected \in Ids(Updated(queued).objlist)) =>
            LET u == Updated(queued)
                k == Find(u.objlist, u.selected)
                dx == Sgn(p[1] - u.previousx)
                dy == Sgn(p[2] - u.previousy)
            IN /\ objlist'[k].center = <<u.objlist[k].center[1] + dx,
                                         u.objlist[k].center[2] + dy>>
               /\ \A id \in TargetsOf(u) \cap Ids(u.objlist)
                                         \cap DOMAIN u.items :
                    items'[id].coords =
                        MoveCoords(u.items[id].coords, dx, dy)]_vars

\* the pointer went from (10,10) to (15,8) and the shape created at (10,10)
\* was moved by (+1,-1)
C10_Witness ==
    /\ op = "drag_shape"
    /\ err = "none"
    /\ points = <<(<<10, 10>>)>>
    /\ previousx = 15 /\ previousy = 8
    /\ Len(objlist) = 1
    /\ objlist[1].center = <<11, 9>>
    /\ items[objlist[1].id].coords = <<-9, -11, 31, 29>>
    /\ nextid = 5

\* the state a drag to p leaves
Dragged(p) == drag_shape(St, p[1], p[2], FALSE, <<>>)

\* C11 (as claimed): a drag moves the rendered shape of every member of
\* multi_selected (of selected alone if multi_selected is empty) by its step
\* and adds the step to the center of the record of each of them, and to no
\* other center.
C11_DragMovesTargets ==
    \A p \in PointerPoints :
        selected \in Ids(objlist) =>
            LET dx == Sgn(p[1] - previousx)
                dy == Sgn(p[2] - previousy)
            IN /\ \A id \in Targets \cap FoundShapes :
                    Dragged(p).items[id].coords =
                        MoveCoords(items[id].coords, dx, dy)
               /\ \A i \in DOMAIN objlist :
                    Dragged(p).objlist[i].center =
                        IF objlist[i].id \in Targets
                        THEN <<objlist[i].center[1] + dx,
                               objlist[i].center[2] + dy>>
                        ELSE objlist[i].center

\* the line items of a DrawCanvas
Lines(c) == {i \in DOMAIN c.items : c.items[i].type = "line"}

\* no run is open on a DrawCanvas as constructed or as a closed run leaves it
NoRun(c) ==
    /\ c.firstx = 0 /\ c.firsty = 0
    /\ c.points = <<>>
    /\ c.linetags = <<>>

\* the points clicked in a polyline: those of the events and (10,0)
PolylinePoints == DrawPoints \cup {<<10, 0>>}

ClickSeqs == UNION {[1..n -> PolylinePoints] : n \in 2..MaxClicks}

\* primary clicks at seq[1..i], the last one with modifier state last
RECURSIVE Clicked(_, _, _, _)
Clicked(c, seq, i, last) ==
    IF i = 0 THEN c
    ELSE draw_line(Clicked(c, seq, i - 1, 0),
                   IF i = Len(seq) THEN last ELSE 0, seq[i][1], seq[i][2])

\* the clicks of seq, the last one being the first press of a double click
Closed(c, seq) ==
    connect_lines(Clicked(c, seq, Len(seq), 0),
                  seq[Len(seq)][1], seq[Len(seq)][2])

\* C12 (as claimed): on a polyline canvas with no run open, n >= 2 clicks
\* closed by a double click leave exactly n new segments, points and
\* linetags empty and first at the sentinel (0,0).
C12_ClosedRunHasNSegments ==
    \A k \in DOMAIN draw :
        (draw[k].mode = "lines" /\ NoRun(draw[k])) =>
            \A seq \in ClickSeqs :
                /\ Cardinality(Lines(Closed(draw[k], seq)) \ Lines(draw[k]))
                      = Len(seq)
                /\ Closed(draw[k], seq).points = <<>>
                /\ Closed(draw[k], seq).linetags = <<>>
                /\ Closed(draw[k], seq).firstx = 0
                /\ Closed(draw[k], seq).firsty = 0

\* the clicks of seq, the last one with Control held
ControlEnded(c, seq) == Clicked(c, seq, Len(seq), 4)

\* C13 (as claimed): on a polyline canvas with no run open, n >= 2 clicks of
\* which the last is made with Control held leave exactly n-1 new segments,
\* the ones between consecutive points; last_shape holds their tags, points
\* and linetags are empty and first is at the sentinel (0,0).
C13_ControlEndsRunOpen ==
    \A k \in DOMAIN draw :
        (draw[k].mode = "lines" /\ NoRun(draw[k])) =>
            \A seq \in ClickSeqs :
                LET c == ControlEnded(draw[k], seq)
                IN /\ Cardinality(Lines(c) \ Lines(draw[k])) = Len(seq) - 1
                   /\ Len(c.last_shape) = Len(seq) - 1
                   /\ \A i \in 1..(Len(seq) - 1) :
                        \E id \in Lines(c) \ Lines(draw[k]) :
                            /\ c.items[id].tags = <<c.last_shape[i]>>
                            /\ c.items[id].coords =
                                 <<seq[i][1], seq[i][2],
                                   seq[i + 1][1], seq[i + 1][2]>>
                   /\ c.points = <<>>
                   /\ c.linetags = <<>>
                   /\ c.firstx = 0 /\ c.firsty = 0

\* a DrawCanvas without the pointer bookkeeping of the window system
Widget(c) == [c EXCEPT !.down = FALSE, !.clicked = FALSE]

\* C14 (as claimed): on a polyline canvas with an open run of at least one
\* segment, undo deletes the segment drawn last and its tag, pops the last
\* point of points and sets start to the new last point, from which the next
\* click draws; with no run open (first at the sentinel) undo changes nothing.
C14_UndoRemovesLastSegment ==
    [][\A k \in DOMAIN draw :
        UndoAt(k) =>
            IF draw[k].firstx = 0 /\ draw[k].firsty = 0
            THEN Widget(draw'[k]) = Widget(draw[k])
            ELSE draw[k].linetags # <<>> =>
                /\ DOMAIN draw'[k].items =
                      (DOMAIN draw[k].items) \ WithTag(draw[k], Last(draw[k].linetags))
                /\ draw'[k].linetags = Front(draw[k].linetags)
                /\ draw[k].points # <<>>
                /\ draw'[k].points = Front(draw[k].points)
                /\ draw'[k].points # <<>>
                /\ <<draw'[k].startx, draw'[k].starty>> = Last(draw'[k].points)
                /\ \A p \in DrawPoints :
                      LET c == draw_line(draw'[k], 0, p[1], p[2])
                      IN \E id \in Lines(c) \ Lines(draw'[k]) :
                            c.items[id].coords =
                                <<Last(draw'[k].points)[1],
                                  Last(draw'[k].points)[2], p[1], p[2]>>]_vars

\* the run memory erase-last works on: last_line in mode 'freehand',
\* last_shape in mode 'lines'
LastRun(c) == IF c.mode = "freehand" THEN c.last_line ELSE c.last_shape

\* the items the tags of a run select
RunItems(c, tags) ==
    {i \in DOMAIN c.items : \E n \in DOMAIN tags : HasTag(c.items[i], tags[n])}

\* the key events of erase-last, with the mode each one is for
EraseLastKeys == {<<4, "f", "freehand">>, <<4, "l", "lines">>}

\* C15: erase-last for a mode deletes, on every DrawCanvas of that mode,
\* exactly the items its run memory refers to and empties that memory; the
\* canvases of the other mode are left as they are; a second erase-last
\* right after it deletes nothing.
C15_EraseLastDeletesLastRun ==
    [][\A ev \in EraseLastKeys :
        DrawKeyAt(<<ev[1], ev[2]>>) =>
            /\ \A k \in DOMAIN draw :
                IF draw[k].mode = ev[3]
                THEN /\ DOMAIN draw'[k].items =
                          (DOMAIN draw[k].items) \ RunItems(draw[k], LastRun(draw[k]))
                     /\ LastRun(draw'[k]) = <<>>
                ELSE draw'[k] = draw[k]
            /\ \A k \in DOMAIN draw :
                DOMAIN DrawCanvas_handle_key(draw', ev[1], ev[2])[k].items
                    = DOMAIN draw'[k].items]_vars

\* a key event of the frame ran last, and erase-last has run on two
\* freehand siblings: each had one stroke, the stroke of each is gone and
\* its memory is empty, and the cursor text of one is still there
C15_Witness ==
    /\ op = "handle_key"
    /\ Len(draw) = 2
    /\ \A k \in DOMAIN draw :
        /\ draw[k].mode = "freehand"
        /\ draw[k].line_count = 1
        /\ Lines(draw[k]) = {}
        /\ draw[k].last_line = <<>>
    /\ \E k \in DOMAIN draw : DOMAIN draw[k].items # {}

\* the key events of erase-all, with the mode each one is for
EraseAllKeys == {<<5, "f", "freehand">>, <<5, "l", "lines">>}

\* C16: erase-all for a mode removes every item of every DrawCanvas of that
\* mode and leaves every DrawCanvas of the other mode, its items and its run
\* state, as it was.
C16_EraseAllKeepsOtherMode ==
    [][\A ev \in EraseAllKeys :
        DrawKeyAt(<<ev[1], ev[2]>>) =>
            \A k \in DOMAIN draw :
                IF draw[k].mode = ev[3]
                THEN DOMAIN draw'[k].items = {}
                ELSE draw'[k] = draw[k]]_vars

\* a key event of the frame ran last, and erase-all has run on two
\* polyline siblings: each had a segment, one had the cursor text too, and
\* both are empty
C16_Witness ==
    /\ op = "handle_key"
    /\ Len(draw) = 2
    /\ \A k \in DOMAIN draw :
        /\ draw[k].mode = "lines"
        /\ draw[k].line_count >= 1
        /\ DOMAIN draw[k].items = {}
    /\ \E k \in DOMAIN draw : draw[k].nextid >= draw[k].line_count + 2

\* the box of a shape moved by d on both axes
Shifted(coords, d) == [k \in DOMAIN coords |-> coords[k] + d]

\* C17: when the box of the selected shape offset by 20 is the box of the
\* last shape of objlist (boxes on whole pixels, which the float comparison
\* of the handler compares exactly), Control+'d' puts the new shape at the
\* offset 40:
\* its box and its center are those of the selected shape plus 40, and its
\* box is not the box of the last shape.
C17_DuplicateAvoidsLast ==
    [][(/\ selected \in FoundShapes
        /\ items[Last(objlist).id].coords = Shifted(items[selected].coords, 20)
        /\ ~Inexact(<<items[selected].coords, items[selected].frac>>)
        /\ ~Inexact(<<items[Last(objlist).id].coords,
                      items[Last(objlist).id].frac>>)
        /\ \E same \in BOOLEAN : HandleKeyAt(<<4, "d">>, None, same)) =>
            /\ Len(objlist') = Len(objlist) + 1
            /\ Last(objlist').id = nextid
            /\ items'[nextid].coords = Shifted(items[selected].coords, 40)
            /\ items'[nextid].coords # items[Last(objlist).id].coords
            /\ Last(objlist').center =
                 <<objlist[Find(objlist, selected)].center[1] + 40,
                   objlist[Find(objlist, selected)].center[2] + 40>>]_vars

\* a shape duplicated twice: the copies are at +20 and at +40
C17_Witness ==
    /\ op = "duplicate"
    /\ err = "none"
    /\ Len(objlist) = 3
    /\ selected = objlist[1].id
    /\ items[objlist[2].id].coords = Shifted(items[selected].coords, 20)
    /\ items[objlist[3].id].coords = Shifted(items[selected].coords, 40)
    /\ objlist[3].center = <<objlist[1].center[1] + 40, objlist[1].center[2] + 40>>

\* C18 (as claimed): Control+'d' appends one record to objlist; the new shape
\* is of the kind of the selected shape, and the linecolor of its record and
\* its rendered outline are the linecolor of the record of the selected
\* shape, whatever the linecolor of the canvas is.
C18_DuplicateKeepsKindAndColor ==
    [][(/\ selected \in FoundShapes
        /\ \E same \in BOOLEAN : HandleKeyAt(<<4, "d">>, None, same)) =>
            /\ Len(objlist') = Len(objlist) + 1
            /\ SubSeq(objlist', 1, Len(objlist)) = objlist
            /\ Last(objlist').id = nextid
            /\ items'[nextid].type = items[selected].type
            /\ items'[nextid].outline = RegistryColor(objlist, selected)
            /\ Last(objlist').linecolor = RegistryColor(objlist, selected)]_vars

\* C19: with a non-empty objlist, Control+'r' sets the outline of every shape
\* that was in multi_selected to the linecolor of its record, leaves
\* multi_selected empty and sets selected to the id of the last record of
\* objlist.
C19_ReleaseRestoresOutlines ==
    [][(objlist # <<>> /\ HandleKeyAt(<<4, "r">>, None, TRUE)) =>
            /\ \A id \in Range(multi_selected) \cap FoundShapes :
                items'[id].outline = RegistryColor(objlist, id)
            /\ multi_selected' = <<>>
            /\ objlist' = objlist
            /\ selected' = Last(objlist).id]_vars

\* the release ran after a red and a black shape were made and the first one
\* was looked up by a multi-select toggle (its center is the one reported):
\* it has its red outline, and the last shape is selected
C19_Witness ==
    /\ op = "release"
    /\ err = "none"
    /\ Len(objlist) = 2
    /\ objlist[1].linecolor = "red"
    /\ objlist[2].linecolor = "black"
    /\ items[objlist[1].id].outline = "red"
    /\ items[objlist[2].id].outline = "black"
    /\ \E i \in WithTag(St, Tag("center_text", 0)) : items[i].fill = "red"
    /\ multi_selected = <<>>
    /\ selected = objlist[2].id
    /\ pending # <<>>

\* C20: a secondary click without modifier whose lookup finds nothing leaves
\* selected, multi_selected and objlist as they were; one whose lookup finds
\* a shape makes the id of that shape selected.
C20_SelectFollowsLookup ==
    [][\A found \in FindClosest(St) :
        ToggleSelectionAt(0, found) =>
            /\ found = None =>
                /\ selected' = selected
                /\ multi_selected' = multi_selected
                /\ objlist' = objlist
            /\ found \in FoundShapes =>
                /\ selected' = found
                /\ objlist' = objlist]_vars

\* a shape that is not the last one created was found and is selected
C20_Witness ==
    /\ op = "select_shape"
    /\ err = "none"
    /\ Len(objlist) >= 2
    /\ selected \in FoundShapes
    /\ selected # Last(objlist).id
    /\ items[selected].fill = "#ffa"

\* C21 (as claimed): with a non-empty objlist, a secondary click with Shift
\* held sets selected to the id of the last record of objlist, whatever the
\* lookup at the click position would find.
C21_ShiftClickSelectsLast ==
    [][\A found \in FindClosest(St) :
        (objlist # <<>> /\ ToggleSelectionAt(1, found)) =>
            selected' = Last(objlist).id]_vars

\* C22 (as claimed): while selected is None, a drag, a resize, a location
\* nudge, a size nudge, a duplicate and a delete each raise nothing and leave
\* objlist, selected, multi_selected and every canvas item as they were.
C22_NoSelectionIsNoOp ==
    [][(selected = None /\ (DragShapeIn(DragQueues) \/ ResizeShape \/ KeyNudge \/ NudgeSize
                             \/ KeyDuplicate \/ KeyDelete)) =>
            /\ err' = "none"
            /\ objlist' = objlist
            /\ selected' = selected
            /\ multi_selected' = multi_selected
            /\ items' = items]_vars

\* the handler runs that schedule a highlight revert: Alt+'r', a secondary
\* click and a secondary click with Shift
Flashed(s) ==
    {handle_key(s, 8, "r", None, TRUE)} \cup
    {toggle_selection(s, state, found) :
        state \in {0, 1}, found \in FindClosest(s)}

\* C23 (as claimed): when a highlight is scheduled for a shape, the shape is
\* then deleted with Control+'x' and the deferred revert runs after that, the
\* revert raises nothing and changes the fill of no item that is left.
C23_RevertAfterDeleteIsNoOp ==
    pending = <<>> =>
        \A s1 \in Flashed(St) :
            LET target == s1.selected
                s2 == handle_key(s1, 4, "x", None, TRUE)
                s3 == fire_after(s2)
            IN (/\ Len(s1.pending) = 1
                /\ target \in DOMAIN s1.items
                /\ s1.items[target].fill = "#ffa"
                /\ target \notin DOMAIN s2.items) =>
                    /\ s3.err = "none"
                    /\ \A i \in DOMAIN s2.items :
                            s3.items[i].fill = s2.items[i].fill

\* C24 (as claimed): set_start at a point p of a canvas with no sequence
\* (first is (0,0)) sets first and previous to p and a sequence is active
\* afterwards (first is not (0,0)); with a sequence it sets previous to the
\* old start and keeps first; in both cases start is p and p is the last
\* element of points, after the points there were.
C24_SetStartRecordsClick ==
    \A k \in DOMAIN draw : \A p \in DrawPoints :
        LET c == draw[k]
            d == set_start(c, p[1], p[2])
        IN /\ IF c.firstx = 0 /\ c.firsty = 0
              THEN /\ <<d.firstx, d.firsty>> = p
                   /\ <<d.previousx, d.previousy>> = p
                   /\ ~(d.firstx = 0 /\ d.firsty = 0)
              ELSE /\ <<d.previousx, d.previousy>> = <<c.startx, c.starty>>
                   /\ <<d.firstx, d.firsty>> = <<c.firstx, c.firsty>>
           /\ <<d.startx, d.starty>> = p
           /\ d.points = Append(c.points, p)

\* C25 (as claimed): a key event with a Caps Lock state (3, 6, 10), or with
\* a key its modifier has no case for (Shift+'x', Control+'q', Alt+'z', a
\* key without modifier), leaves objlist, selected, multi_selected and every
\* canvas item as they were and raises nothing.
C25_IgnoredKeysChangeNothing ==
    [][KeyIgnored =>
            /\ err' = "none"
            /\ objlist' = objlist
            /\ selected' = selected
            /\ multi_selected' = multi_selected
            /\ items' = items]_vars

\* C25 (amended): the same for every such key event but Control+Up and
\* Control+Down with Caps Lock on (state 6), which Tk gives to nudge_size
\* and not to handle_key; those leave objlist, selected and multi_selected
\* as they were and, when selected is a shape of objlist on the canvas and
\* multi_selected is empty, change the box of that shape.
C25_IgnoredKeysButControlArrows ==
    [][/\ HandleKeyIn((OtherKeys \cup CapsKeys) \ {<<6, "Up">>, <<6, "Down">>})
            => /\ err' = "none"
               /\ objlist' = objlist
               /\ selected' = selected
               /\ multi_selected' = multi_selected
               /\ items' = items
       /\ HandleKeyIn({<<6, "Up">>, <<6, "Down">>})
            => /\ op' = "nudge_size"
               /\ objlist' = objlist
               /\ selected' = selected
               /\ multi_selected' = multi_selected
               /\ (/\ multi_selected = <<>>
                   /\ Find(objlist, selected) # 0
                   /\ selected \in DOMAIN items)
                    => items'[selected].coords # items[selected].coords]_vars

\* a key event with Caps Lock on reached `case 3 | 6 | 10` of handle_key,
\* with shapes, a selection and a multi-selection on the canvas
C25_Witness ==
    /\ op = "caps_lock"
    /\ err = "none"
    /\ Len(objlist) > 1
    /\ multi_selected # <<>>
    /\ selected # None

\* C26 (as claimed): on a polyline canvas with a run open and one point in
\* points, undo_line leaves first at (0,0), and the primary click after it
\* records its point and draws no segment.
C26_UndoOfLastPointEndsRun ==
    \A k \in DOMAIN draw : \A p \in PolylinePoints :
        LET c == draw[k]
            u == undo_line(c)
            d == draw_line(u, 0, p[1], p[2])
        IN (/\ c.mode = "lines"
            /\ ~(c.firstx = 0 /\ c.firsty = 0)
            /\ Len(c.points) = 1) =>
                /\ u.points = <<>>
                /\ u.firstx = 0 /\ u.firsty = 0
                /\ d.points = <<p>>
                /\ d.items = u.items
                /\ d.linetags = u.linetags

\* C27 (as claimed): on every polyline canvas, linetags is empty if and only
\* if first is (0,0).
C27_TagsEmptyIffNoRun ==
    \A k \in DOMAIN draw :
        draw[k].mode = "lines" =>
            (draw[k].linetags = <<>>
                <=> (draw[k].firstx = 0 /\ draw[k].firsty = 0))

\* C27 (amended): on every polyline canvas, linetags is empty whenever first
\* is (0,0); a run that is open may have no segment yet.
C27_NoRunHasNoTags ==
    \A k \in DOMAIN draw :
        (draw[k].mode = "lines" /\ draw[k].firstx = 0 /\ draw[k].firsty = 0)
            => draw[k].linetags = <<>>

C27_Witness ==
    \E k \in DOMAIN draw :
        /\ draw[k].mode = "lines"
        /\ draw[k].firstx = 0 /\ draw[k].firsty = 0
        /\ draw[k].last_shape # <<>>
        /\ draw[k].linetags = <<>>

\* C28 (as claimed): after erase-all for a mode, every DrawCanvas of that
\* mode has an empty run memory (last_line on a freehand canvas, last_shape
\* on a polyline canvas).
C28_EraseAllClearsRunMemory ==
    \A key \in EraseAllKeys :
        LET e == DrawCanvas_handle_key(draw, key[1], key[2])
        IN \A m \in DOMAIN e :
                e[m].mode = key[3] =>
                    (IF e[m].mode = "freehand"
                     THEN e[m].last_line ELSE e[m].last_shape) = <<>>

StrokeSeqs == UNION {[1..n -> PolylinePoints] : n \in 0..MaxClicks}

\* motion samples at seq[1..i] with button 1 held
RECURSIVE Sampled(_, _, _)
Sampled(c, seq, i) ==
    IF i = 0 THEN c
    ELSE draw_line(Sampled(c, seq, i - 1), 256, seq[i][1], seq[i][2])

\* a stroke: press at p, the motion samples of seq, release
Stroked(c, p, seq) ==
    reset_line(Sampled(set_start(c, p[1], p[2]), seq, Len(seq)))

\* C29: on a freehand canvas, after a press, any motion samples and the
\* release, linetags is empty and last_line holds exactly the tags of the
\* segments the stroke drew; erase-last for 'freehand' then deletes those
\* segments and leaves every other item of the canvas, the segments of the
\* strokes before it among them, as it was.
C29_StrokeIsLastRun ==
    \A k \in DOMAIN draw :
        (draw[k].mode = "freehand" /\ ~draw[k].down) =>
            \A p \in PolylinePoints : \A seq \in StrokeSeqs :
                LET c == draw[k]
                    s == Stroked(c, p, seq)
                    drawn == DOMAIN s.items \ DOMAIN c.items
                    e == DrawCanvas_handle_key(<<s>>, 4, "f")[1]
                IN /\ s.linetags = <<>>
                   /\ Len(s.last_line) = Cardinality(drawn)
                   /\ Range(s.last_line) = {s.items[i].tags[1] : i \in drawn}
                   /\ \A i \in drawn : s.items[i].type = "line"
                   /\ \A i \in DOMAIN c.items : s.items[i] = c.items[i]
                   /\ DOMAIN e.items = DOMAIN c.items
                   /\ \A i \in DOMAIN c.items : e.items[i] = c.items[i]
                   /\ e.last_line = <<>>

\* a stroke has been drawn and released on a freehand canvas
C29_Witness ==
    \E k \in DOMAIN draw :
        /\ draw[k].mode = "freehand"
        /\ ~draw[k].down
        /\ draw[k].linetags = <<>>
        /\ Len(draw[k].points) = 2
        /\ draw[k].last_line = <<Tag("line", 1)>>
        /\ WithTag(draw[k], Tag("line", 1)) # {}

\* C30 (as claimed): when the lookup at the pointer finds no item, a
\* secondary click with Control held and Alt+'b' each leave objlist,
\* selected, multi_selected and the outline of every item as they were and
\* raise nothing.
C30_EmptyLookupIsNoOp ==
    FindClosest(St) = {None} =>
        \A h \in {toggle_multi_select(St, None),
                  handle_key(St, 8, "b", None, TRUE)} :
            /\ h.err = "none"
            /\ h.objlist = objlist
            /\ h.selected = selected
            /\ h.multi_selected = multi_selected
            /\ DOMAIN h.items = DOMAIN items
            /\ \A i \in DOMAIN items : h.items[i].outline = items[i].outline

\* the rendered shape primitives: ovals, rectangles and arcs
ShapeItems == {i \in DOMAIN items : items[i].type \in ShapeKinds}

\* C31 (as claimed): the ids of objlist are pairwise distinct, each is the id
\* of a rendered shape primitive, and every rendered shape primitive has a
\* record in objlist.
C31_RegistryMatchesCanvas ==
    /\ \A i, j \in DOMAIN objlist : objlist[i].id = objlist[j].id => i = j
    /\ Ids(objlist) = ShapeItems

\* a delete went through and left shapes, after a duplicate was made
C31_Witness ==
    /\ op = "delete"
    /\ err = "none"
    /\ objlist # <<>>
    /\ Len(shapetags) = 1
    /\ C31_RegistryMatchesCanvas

\* C32 (as claimed): the center of every record of objlist is the center of
\* the rendered bounding box of its shape.
C32_CenterIsBoxCenter ==
    \A i \in DOMAIN objlist :
        objlist[i].id \in DOMAIN items =>
            LET box == items[objlist[i].id].coords
            IN /\ 2 * objlist[i].center[1] = box[1] + box[3]
               /\ 2 * objlist[i].center[2] = box[2] + box[4]

\* the flashes a pointer lookup f can start in s, each with the shape it
\* highlights: select, multi-select toggle, Shift-unselect and reveal
Flashes(s, f) ==
    {<<toggle_selection(s, 0, f), f>>,
     <<toggle_multi_select(s, f), f>>,
     <<toggle_selection(s, 1, f), toggle_selection(s, 1, f).selected>>,
     <<handle_key(s, 8, "r", None, TRUE), s.selected>>}

\* what may be handled between a flash and its revert: nothing, a primary
\* click, a delete
Between(s) ==
    {s, handle_key(s, 4, "x", None, TRUE)} \cup
    {setup_shape(s, p[1], p[2]) : p \in PointerPoints}

\* C33 (as claimed): a shape that a flash has given the highlight fill has
\* an empty fill once the revert scheduled by that flash has run, whatever
\* is handled between the two.
C33_FlashIsReverted ==
    pending = <<>> =>
        \A f \in FindClosest(St) : \A fl \in Flashes(St, f) :
            LET s1 == fl[1]
                target == fl[2]
            IN (/\ s1.err = "none"
                /\ Len(s1.pending) = 1
                /\ target \in Ids(s1.objlist)
                /\ s1.items[target].fill = "#ffa") =>
                    \A s2 \in Between(s1) :
                        target \in DOMAIN s2.items =>
                            fire_after(s2).items[target].fill = ""

\* the center of the record of id in objlist
CenterOf(id) == objlist[Find(objlist, id)].center

\* the item it scaled about the point c, up or down
ScaledItem(it, c, up) ==
    LET T == [k \in DOMAIN it.coords |->
                ScaleCoord(it.coords[k], it.frac[k],
                           IF k % 2 = 1 THEN c[1] ELSE c[2], up)]
    IN [it EXCEPT !.coords = [k \in DOMAIN T |-> T[k] \div ScaleUnit],
                  !.frac = [k \in DOMAIN T |-> T[k] % ScaleUnit]]

\* C34 (as claimed): with something selected, a resize event at pointer y
\* scales by 1.01 (y less than motiony) or by 0.99 (y greater than motiony)
\* every shape of multi_selected about the center of its own record, or the
\* selected shape alone if multi_selected is empty, and no other item; it
\* scales nothing if y is motiony; the centers of objlist, selected and
\* multi_selected stay as they were.
C34_ResizeScalesTargets ==
    [][\A p \in PointerPoints :
        (selected # None /\ ResizeShapeAt(p)) =>
            /\ Centers([objlist |-> objlist']) = Centers([objlist |-> objlist])
            /\ selected' = selected
            /\ multi_selected' = multi_selected
            /\ DOMAIN items' = DOMAIN items
            /\ \A id \in DOMAIN items :
                 items'[id] =
                    IF id \in Targets /\ id \in Ids(objlist) /\ p[2] # motiony
                    THEN ScaledItem(items[id], CenterOf(id), p[2] < motiony)
                    ELSE items[id]]_vars

\* the box moved outward by d on each of its four edges
Grown(box, d) == <<box[1] - d, box[2] - d, box[3] + d, box[4] + d>>

\* C35 (as claimed): with something selected, Control+Up moves the four
\* edges of the box of every targeted shape outward by 1 and Control+Down
\* moves them inward by 1; Up and then Down leaves each of these boxes as it
\* was; no center of objlist changes.
C35_SizeNudgeMovesEdges ==
    selected # None =>
        LET u == nudge_size(St, "Up")
            d == nudge_size(St, "Down")
            ud == nudge_size(u, "Down")
        IN /\ \A id \in Targets \cap FoundShapes :
                /\ u.items[id].coords = Grown(items[id].coords, 1)
                /\ d.items[id].coords = Grown(items[id].coords, -1)
                /\ ud.items[id].coords = items[id].coords
           /\ Centers(u) = Centers(St)
           /\ Centers(d) = Centers(St)

\* C36 (as claimed): every shape whose id is in multi_selected is rendered
\* with the outline 'grey'.
C36_MembersAreGrey ==
    \A k \in DOMAIN multi_selected :
        multi_selected[k] \in ShapeItems =>
            items[multi_selected[k]].outline = "grey"

\* the step the claim gives for the pointer offsets dx, dy
ConstrainedStep(dx, dy) ==
    IF Abs(dx) > Abs(dy) + 1 THEN <<Sgn(dx), 0>>
    ELSE IF Abs(dy) > Abs(dx) + 1 THEN <<0, Sgn(dy)>>
    ELSE <<0, 0>>

\* C37: a constrained drag steps along at most one axis: along x only when the
\* pointer offset in x exceeds the offset in y by more than 1 in magnitude,
\* along y only when the offset in y exceeds the one in x by more than 1, and
\* not at all when the magnitudes differ by at most 1; the center of the
\* selected record and the rendered shape advance by exactly that step.
\* The previous position, the selection and the shapes are those the handler
\* reads, after the handlers waiting at its update() ran.
C37_ConstrainedDragOneAxis ==
    [][\A p \in ConstrainPoints, queued \in ConstrainQueues :
        (/\ selected # None
         /\ op' = "drag_shape"
         /\ DragShapeAt(p, TRUE, queued)
         /\ Updated(queued).selected \in Ids(Updated(queued).objlist)) =>
            LET u == Updated(queued)
                k == Find(u.objlist, u.selected)
                step == ConstrainedStep(p[1] - u.previousx,
                                        p[2] - u.previousy)
                moved == <<objlist'[k].center[1] - u.objlist[k].center[1],
                           objlist'[k].center[2] - u.objlist[k].center[2]>>
            IN /\ moved = step
               /\ moved[1] = 0 \/ moved[2] = 0
               /\ \A id \in TargetsOf(u) \cap Ids(u.objlist)
                                         \cap DOMAIN u.items :
                    items'[id].coords =
                        MoveCoords(u.items[id].coords, step[1], step[2])]_vars

\* the shape created at (10,10) was dragged to (12,11), which is within the
\* one-pixel band and left it in place, and then to (10,13), which moved it
\* one pixel down and not sideways
C37_Witness ==
    /\ op = "drag_shape"
    /\ err = "none"
    /\ points = <<(<<10, 10>>)>>
    /\ previousx = 10 /\ previousy = 13
    /\ Len(objlist) = 1
    /\ objlist[1].center = <<10, 11>>
    /\ nextid = 7

\* C38: every id in multi_selected is the id of a shape in the registry; after
\* a delete of the multi-selection no deleted id is left in it.
C38_MembersAreRegistered == Range(multi_selected) \subseteq Ids(objlist)

\* C39: after one shape was created by a click and duplicated any number of
\* times in a row, no two shapes of the registry are rendered with the same
\* bounding box.
C39_NoTwoBoxesAlike ==
    \A i, j \in DOMAIN objlist :
        (/\ Len(points) = 1
         /\ i # j
         /\ objlist[i].id \in DOMAIN items
         /\ objlist[j].id \in DOMAIN items)
            => items[objlist[i].id].coords # items[objlist[j].id].coords

====
